---- MODULE Spec2Model ----
(***************************************************************************)
(* The hook pipeline of ngorm (hooks/default.go): the Create, Query,       *)
(* Update and Delete drivers, the steps they dispatch through the hook     *)
(* book, and the association preloader.                                    *)
(*                                                                         *)
(* A call is modelled functionally.  The record m that every step takes    *)
(* and returns holds what a Go step reaches through (b *Book, e *Engine):  *)
(*   m.book    the hook book: (group, name) -> registered functions        *)
(*   m.e       the engine context (Scope.SQL, Scope.SQLVars, RowsAffected, *)
(*             Scope.Value, the Scope.Set/Get side channel, the dialect)   *)
(*   m.db      what the backend answers (row count, last id, result rows)  *)
(*   m.failAt  which of the fallible external calls fail, by call number   *)
(*   m.calls   the fallible external calls made so far, in order, each     *)
(*             with the function that made it and the engine it was made   *)
(*             on (level 0 is the caller's engine, a clone is one deeper)  *)
(*   m.steps   the calls and returns of the book's functions, in order     *)
(*   m.cur     the function of the book that is running                    *)
(*   m.err     the error value being returned ("nil" for no error)         *)
(***************************************************************************)
EXTENDS Integers, Sequences, FiniteSets, TLC

VARIABLES
    pc,      \* "idle": no call in progress; "done": a call has returned
    op,      \* the entry point that was called
    book,    \* the hook book
    failAt,  \* the numbers of the external calls that fail in this call
    db,      \* the backend's answers in this call
    e0,      \* the engine context when the call was made
    e,       \* the engine context
    calls,   \* log of fallible external calls
    steps,   \* log of the registered functions that ran
    err,     \* the error the call returned
    sm,      \* the SafeModelStructsMap: its map and its lock
    req,     \* the goroutines asking for the metadata of a record type
    sets     \* how many times each key of the map was stored

callVars == <<pc, op, book, failAt, db, e0, e, calls, steps, err>>

structVars == <<sm, req, sets>>

vars == <<pc, op, book, failAt, db, e0, e, calls, steps, err, sm, req, sets>>

----------------------------------------------------------------------------
(* Bounds *)

MaxCalls == 12   \* external calls 1..MaxCalls of one call may be made to fail
MaxRows == 2     \* rows a statement matches / a query returns
MaxPrior == 1    \* row count left in the context by an earlier call
MaxHooks == 1    \* functions the user registers
MaxOwners == 2   \* owners in the sequence a preload is called on
MaxRelated == 2  \* rows in a related table
MaxRequesters == 2  \* goroutines asking for record metadata at once
MaxVars == 12  \* parameters of a statement handed to fixWhere

----------------------------------------------------------------------------
(* Errors *)

Nil == "nil"
ErrRecordNotFound == "record not found"
ErrUnaddressable == "using unaddressable value"
ErrNotImplemented == "hook not implemented"
ErrUnsupportedDestination == "unsupported destination, should be slice or struct"
ErrMissingWhereUpdate == "missing WHERE condition for update"
ErrMissingWhereDelete == "Missing WHERE clause while deleting"
ErrMissingUpdateSQL == "missing update sql "

\* The error a failing external call returns.
ErrOf(call) == call \o " failed"

UsageErrors ==
    {ErrUnsupportedDestination, ErrMissingWhereUpdate, ErrMissingWhereDelete}

----------------------------------------------------------------------------
(* Fallible external calls: backend, metadata and user hooks *)

Fail(m, error) == [m EXCEPT !.err = error]

\* if err != nil { return err }: the rest F runs on m when m holds no error.
Then(m, F(_)) == IF m.err # Nil THEN m ELSE F(m)

\* x := v, for the rest F.
With(v, F(_)) == F(v)

\* One call of a fallible collaborator.  The n-th such call of an
\* operation fails exactly when n is in m.failAt.
Call(m, call) ==
    LET n == Len(m.calls) + 1
        ok == n \notin m.failAt
    IN  [m EXCEPT !.calls = Append(@, [call |-> call, ok |-> ok,
                                       by |-> m.cur, lvl |-> m.e.level]),
                  !.err = IF ok THEN Nil ELSE ErrOf(call)]

BackendCalls == {"Begin", "Exec", "Commit", "Rollback", "Query", "QueryRow"}

\* The calls that send something to the backend connection.
BackendLog(cs) == SelectSeq(cs, LAMBDA c : c.call \in BackendCalls)

----------------------------------------------------------------------------
(* Dialect service *)

Dialects == {"ql", "postgres", "mysql"}

IsQL(dialect) == dialect \in {"ql", "ql-mem"}

\* Only postgres has an "insert ... returning" suffix.
LastInsertIDReturningSuffix(dialect) ==
    IF dialect = "postgres" THEN <<"RETURNING">> ELSE << >>

----------------------------------------------------------------------------
(* Engine context *)

\* The Scope.Set/Get side channel: which keys are set.
NoScope ==
    [UpdateColumn |-> FALSE, UpdateInterface |-> FALSE, UpdateAttrs |-> FALSE,
     QueryOption |-> FALSE, QueryDestination |-> FALSE, OrderByPK |-> FALSE,
     InsertOptions |-> FALSE, UpdateOptions |-> FALSE, DeleteOption |-> FALSE,
     IgnoreProtectedAttrs |-> FALSE, BlankColWithValue |-> << >>,
     attrs |-> << >>,
     SaveAssociations |-> TRUE]

NoValue == [kind |-> "none"]

\* A search condition: the column it tests and the values it accepts
\* (search.Where with "col IN (?)"); col "*" is a condition on no
\* particular column, which every row passes.
Cond(query, col, values) == [query |-> query, col |-> col, values |-> values]

\* engine.Clone: same dialect and connection, a fresh scope and search.
Clone(ctx) ==
    [dialect |-> ctx.dialect, level |-> ctx.level + 1,
     SQL |-> << >>, SQLVars |-> << >>,
     RowsAffected |-> 0, Value |-> NoValue, dest |-> NoValue,
     where |-> << >>, inline |-> << >>, join |-> "", preload |-> << >>,
     scope |-> NoScope]

\* scope.HasConditions: a primary key value or a search condition.
HasConditions(ctx) ==
    \/ ctx.where # << >>
    \/ (ctx.Value.kind = "struct" /\ ctx.Value.hasPK /\ ctx.Value.id # 0)

ShouldSaveAssociation(ctx) == ctx.scope.SaveAssociations

----------------------------------------------------------------------------
(* Hook book (4.1) *)

Groups == {"Create", "Query", "Update", "Delete", "Save"}

RECURSIVE RunFn(_, _)
RECURSIVE RunAll(_, _)

\* Runs the registered functions in registration order, stopping at the
\* first error.
RunAll(m, fns) ==
    IF fns = << >> THEN m
    ELSE Then(RunFn(m, Head(fns)), LAMBDA m1 : RunAll(m1, Tail(fns)))

Registered(m, group, name) ==
    IF <<group, name>> \in DOMAIN m.book THEN m.book[<<group, name>>] ELSE << >>

\* Exec that takes a missing registration for an error.
Exec_Required(m, group, name) ==
    IF Registered(m, group, name) = << >>
    THEN Fail(m, ErrNotImplemented)
    ELSE RunAll(m, Registered(m, group, name))

\* Book.Exec: nothing registered is a no-op.
Exec(m, group, name) == RunAll(m, Registered(m, group, name))

\* Book.MustExec: nothing registered is an error.
MustExec(m, group, name) ==
    IF Registered(m, group, name) = << >>
    THEN Fail(m, ErrNotImplemented)
    ELSE RunAll(m, Registered(m, group, name))

\* A function registered by the user: it can fail, and touches nothing else.
UserHook(m, fn) == Call(m, fn)

----------------------------------------------------------------------------
(* Values: a record (struct), a sequence of records, or something else *)

\* A record value.  id is the primary key (0 is the blank value), fk a
\* foreign key column, fields the relationship fields of the record.
Struct(id, fk) ==
    [kind |-> "struct", type |-> "Record", id |-> id, fk |-> fk,
     hasPK |-> TRUE,
     addressable |-> TRUE, hasDeletedAt |-> FALSE, fkDefault |-> FALSE,
     fkChangeable |-> TRUE, fields |-> << >>]

\* A relationship field of a record.  elems are the related records the
\* field holds (one for a struct field), save is the answer of
\* scope.SaveFieldAsAssociation, nfk the number of foreign keys.
Relation(name, kind, shape, type, elems) ==
    [name |-> name, Kind |-> kind, shape |-> shape, elems |-> elems,
     isNil |-> (elems = << >>), type |-> type, save |-> TRUE, changeable |-> TRUE, joinTable |-> (kind = "many_to_many"),
     poly |-> FALSE, nfk |-> 1]

\* A sequence of records of one type.
Slice(items) == [kind |-> "slice", type |-> "Record", items |-> items]

IsBlank(v) == v.id = 0

\* Record metadata: the relationship fields of each record type.
Types == {"Record", "Owner", "Item", "Part", "Profile", "Company", "Tag"}

RelDesc(name, kind, shape, type) ==
    [name |-> name, Kind |-> kind, shape |-> shape, type |-> type,
     poly |-> FALSE]

Schema ==
    [t \in Types |->
       CASE t = "Owner" ->
              <<RelDesc("Items", "has_many", "slice", "Item"),
                RelDesc("Profile", "has_one", "struct", "Profile"),
                RelDesc("Company", "belongs_to", "struct", "Company"),
                RelDesc("Tags", "many_to_many", "slice", "Tag"),
                RelDesc("Notes", "embedded", "slice", "Part")>>
         [] t = "Item" -> <<RelDesc("Parts", "has_many", "slice", "Part")>>
         [] OTHER -> << >>]

RECURSIVE New(_)
\* reflect.New(t).Elem(): the zero value of a record type.
New(t) ==
    [Struct(0, 0) EXCEPT
       !.type = t,
       !.fields = [i \in 1..Len(Schema[t]) |->
                     Relation(Schema[t][i].name, Schema[t][i].Kind,
                              Schema[t][i].shape, Schema[t][i].type,
                              IF Schema[t][i].shape = "slice" THEN << >>
                              ELSE <<New(Schema[t][i].type)>>)]]

\* util.ToString / util.EqualAsString: keys are compared as rendered.
KeyString(k) == ToString(k)

\* The value QueryExec scans into: Scope.Value, unless the scope carries
\* a model.QueryDestination.
Destination(ctx) ==
    IF ctx.scope.QueryDestination THEN ctx.dest ELSE ctx.Value

SetDestination(ctx, v) ==
    IF ctx.scope.QueryDestination
    THEN [ctx EXCEPT !.dest = v]
    ELSE [ctx EXCEPT !.Value = v]

\* The rows a query of the context returns: the rows of the table of the
\* destination's type (db.rows when the backend has no such table) that
\* pass every condition.
Passes(row, cond) ==
    \/ cond.col = "*"
    \/ \E k \in 1..Len(cond.values) :
          KeyString(row[cond.col]) = KeyString(cond.values[k])

ResultRows(backend, ctx) ==
    LET t == Destination(ctx).type
        table == IF t \in DOMAIN backend.tables
                 THEN backend.tables[t] ELSE backend.rows
        conds == ctx.where \o ctx.inline
    IN  SelectSeq(table, LAMBDA row :
                    \A c \in 1..Len(conds) : Passes(row, conds[c]))

\* scope.Scan of one row into a record.
Scan(v, row) == [v EXCEPT !.id = row.id, !.fk = row.fk]

----------------------------------------------------------------------------
(* Query pipeline (4.3) *)

\* QuerySQL: optional ordering by primary key, then builder.PrepareQuery.
\* An error of scope.PrimaryField only leaves the ordering out.
QuerySQL(m) ==
    With(IF m.e.scope.OrderByPK THEN Call(m, "PrimaryField") ELSE m,
         LAMBDA m0 :
    Then(Call([m0 EXCEPT !.err = Nil], "PrepareQuery"), LAMBDA m1 :
        [m1 EXCEPT !.e.SQL = <<"SELECT">>
                             \o (IF m.e.where # << >>
                                 THEN <<"WHERE">> ELSE << >>)
                             \o (IF m.e.scope.OrderByPK /\ m0.err = Nil
                                 THEN <<"ORDER BY", "pk">> ELSE << >>)]))

RECURSIVE ScanRows(_, _, _)
\* The rows.Next() loop of QueryExec.
ScanRows(m, rows, isSlice) ==
    IF rows = << >> THEN m
    ELSE Then(Call([m EXCEPT !.e.RowsAffected = @ + 1], "Fields"),
              LAMBDA m2 :
         With(Destination(m2.e), LAMBDA dst :
         ScanRows(IF isSlice
                  THEN [m2 EXCEPT !.e = SetDestination(m2.e,
                           [dst EXCEPT !.items =
                               Append(@, Scan(New(dst.type), Head(rows)))])]
                  ELSE [m2 EXCEPT !.e = SetDestination(m2.e,
                           Scan(dst, Head(rows)))],
                  Tail(rows), isSlice)))

\* rows.Close(), deferred in QueryExec.
CloseRows(m) ==
    [m EXCEPT !.calls = Append(@, [call |-> "Close", ok |-> TRUE,
                                   by |-> m.cur, lvl |-> m.e.level])]

\* QueryRows that treats an empty result as a missing record whatever the
\* destination is.
QueryRows_NotFound(m, isSlice) ==
    Then(Call(m, "Query"), LAMBDA m2 :
    Then(CloseRows(ScanRows(m2, ResultRows(m.db, m.e), isSlice)),
         LAMBDA m3 :
        IF m3.e.RowsAffected = 0
        THEN Fail(m3, ErrRecordNotFound)
        ELSE m3))

\* QueryRows that closes the cursor only when every row was scanned.
QueryRows_LeakOnError(m, isSlice) ==
    Then(Call(m, "Query"), LAMBDA m2 :
    Then(ScanRows(m2, ResultRows(m.db, m.e), isSlice), LAMBDA m3 :
    With(CloseRows(m3), LAMBDA m4 :
        IF m4.e.RowsAffected = 0 /\ ~isSlice
        THEN Fail(m4, ErrRecordNotFound)
        ELSE m4)))

\* The second half of QueryExec: the query is sent, each row is scanned
\* into the destination, the cursor is closed on the way out.
QueryRows(m, isSlice) ==
    Then(Call(m, "Query"), LAMBDA m2 :
    Then(CloseRows(ScanRows(m2, ResultRows(m.db, m.e), isSlice)),
         LAMBDA m3 :
        IF m3.e.RowsAffected = 0 /\ ~isSlice
        THEN Fail(m3, ErrRecordNotFound)
        ELSE m3))

\* QueryExec that clears the row count and appends the query option before
\* it looks at the destination.
QueryExec_LateCheck(m) ==
    With(Destination(m.e), LAMBDA dst :
    With([m EXCEPT !.e.RowsAffected = 0,
                   !.e.SQL = IF m.e.scope.QueryOption
                             THEN @ \o <<"OPTION">> ELSE @], LAMBDA m0 :
        IF dst.kind = "slice"
        THEN QueryRows([m0 EXCEPT !.e = SetDestination(m0.e,
                                      [dst EXCEPT !.items = << >>])], TRUE)
        ELSE IF dst.kind # "struct"
        THEN Fail(m0, ErrUnsupportedDestination)
        ELSE QueryRows(m0, FALSE)))

QueryExec(m) ==
    With(Destination(m.e), LAMBDA dst :
    With(IF dst.kind = "slice"
         THEN [m EXCEPT !.e = SetDestination(m.e,
                                  [dst EXCEPT !.items = << >>])]
         ELSE m, LAMBDA m0 :
        IF dst.kind # "slice" /\ dst.kind # "struct"
        THEN Fail(m, ErrUnsupportedDestination)
        ELSE QueryRows([m0 EXCEPT !.e.RowsAffected = 0,
                                  !.e.SQL = IF m.e.scope.QueryOption
                                            THEN @ \o <<"OPTION">> ELSE @],
                       dst.kind = "slice")))

----------------------------------------------------------------------------
(* SQL text and parameters *)

\* A bound parameter: its Go type and its value.
Var(t, v) == [t |-> t, v |-> v]

Placeholder(n) == "$" \o ToString(n)

\* scope.AddToVars: appends the value, the placeholder is its position.
AddToVars(ctx, v) == [ctx EXCEPT !.SQLVars = Append(@, Var("int64", v))]

\* builder.CombinedCondition: the primary key condition, then the search
\* conditions; its parameters are appended to the list.
CombinedCondition(ctx) ==
    LET byPK == ctx.Value.kind = "struct" /\ ctx.Value.hasPK /\ ctx.Value.id # 0
        c1 == IF byPK THEN AddToVars(ctx, ctx.Value.id) ELSE ctx
        pk == IF byPK THEN <<"WHERE", "id =", Placeholder(Len(c1.SQLVars))>>
              ELSE << >>
        wh == IF ctx.where # << >>
              THEN <<IF byPK THEN "AND" ELSE "WHERE">>
                   \o [i \in 1..Len(ctx.where) |-> ctx.where[i].query]
              ELSE << >>
    IN  [ctx |-> c1, sql |-> pk \o wh]

\* util.WrapTX and the QL wrapping of CreateSQL / UpdateSQL.
WrapTX(sql) == <<"BEGIN TRANSACTION;">> \o sql \o <<"COMMIT;">>

\* The normal (column) fields of a record: the primary key and fk.
NormalFields(v) ==
    (IF v.hasPK
     THEN <<[name |-> "id", isPK |-> TRUE, blank |-> (v.id = 0),
             hasDefault |-> FALSE, changeable |-> TRUE, val |-> v.id]>>
     ELSE << >>)
    \o <<[name |-> "fk", isPK |-> FALSE, blank |-> (v.fk = 0),
          hasDefault |-> v.fkDefault, changeable |-> v.fkChangeable,
          val |-> v.fk]>>

----------------------------------------------------------------------------
(* Create pipeline (4.2) *)

\* BeforeCreate: the user's before-save and before-create hooks.
BeforeCreate(m) ==
    Then(Exec(m, "Create", "HookBeforeSave"), LAMBDA m1 :
        Exec(m1, "Create", "HookBeforeCreate"))

\* Create that executes the statement before it builds it.
Create_ExecFirst(m) ==
    Then(MustExec(m, "Create", "BeforeCreate"), LAMBDA m1 :
    Then(MustExec(m1, "Create", "HookCreateExec"), LAMBDA m2 :
    Then(Exec(m2, "Create", "HookCreateSQL"), LAMBDA m3 :
        MustExec(m3, "Create", "AfterCreate"))))

\* Create, the driver.
Create(m) ==
    Then(MustExec(m, "Create", "BeforeCreate"), LAMBDA m1 :
    Then(Exec(m1, "Create", "HookCreateSQL"), LAMBDA m2 :
    Then(MustExec(m2, "Create", "HookCreateExec"), LAMBDA m3 :
        MustExec(m3, "Create", "AfterCreate"))))

RECURSIVE createNormal_NoBlank(_, _)
\* The loop of create that lists no blank field at all.
createNormal_NoBlank(r, fds) ==
    IF fds = << >> THEN r
    ELSE LET f == Head(fds)
         IN  IF ~f.changeable THEN createNormal_NoBlank(r, Tail(fds))
             ELSE IF f.blank /\ f.hasDefault
             THEN createNormal_NoBlank(
                    [r EXCEPT !.cv = Append(@, f.name),
                              !.ctx.scope.BlankColWithValue =
                                  Append(r.cv, f.name)],
                    Tail(fds))
             ELSE IF ~f.isPK /\ ~f.blank
             THEN createNormal_NoBlank(
                    [ctx |-> AddToVars(r.ctx, f.val), cv |-> r.cv,
                     cols |-> Append(r.cols, f.name),
                     marks |-> Append(r.marks,
                                 Placeholder(Len(r.ctx.SQLVars) + 1))],
                    Tail(fds))
             ELSE createNormal_NoBlank(r, Tail(fds))

RECURSIVE createNormal_ListDefault(_, _)
\* createNormal that also lists a blank column with a default value, with
\* a placeholder and without a parameter.
createNormal_ListDefault(r, fds) ==
    IF fds = << >> THEN r
    ELSE LET f == Head(fds)
         IN  IF ~f.changeable THEN createNormal_ListDefault(r, Tail(fds))
             ELSE IF f.blank /\ f.hasDefault
             THEN createNormal_ListDefault(
                    [r EXCEPT !.cv = Append(@, f.name),
                              !.cols = Append(@, f.name),
                              !.marks = Append(@,
                                  Placeholder(Len(r.ctx.SQLVars) + 1)),
                              !.ctx.scope.BlankColWithValue =
                                  Append(r.cv, f.name)],
                    Tail(fds))
             ELSE IF ~f.isPK \/ ~f.blank
             THEN createNormal_ListDefault(
                    [ctx |-> AddToVars(r.ctx, f.val), cv |-> r.cv,
                     cols |-> Append(r.cols, f.name),
                     marks |-> Append(r.marks,
                                 Placeholder(Len(r.ctx.SQLVars) + 1))],
                    Tail(fds))
             ELSE createNormal_ListDefault(r, Tail(fds))

RECURSIVE createNormal(_, _)
\* The loop of create over the normal fields: r.ctx is the context,
\* r.cols the column list so far.
createNormal(r, fds) ==
    IF fds = << >> THEN r
    ELSE LET f == Head(fds)
         IN  IF ~f.changeable THEN createNormal(r, Tail(fds))
             ELSE IF f.blank /\ f.hasDefault
             THEN createNormal(
                    [r EXCEPT !.cv = Append(@, f.name),
                              !.ctx.scope.BlankColWithValue =
                                  Append(r.cv, f.name)],
                    Tail(fds))
             ELSE IF ~f.isPK \/ ~f.blank
             THEN createNormal(
                    [ctx |-> AddToVars(r.ctx, f.val), cv |-> r.cv,
                     cols |-> Append(r.cols, f.name),
                     marks |-> Append(r.marks,
                                 Placeholder(Len(r.ctx.SQLVars) + 1))],
                    Tail(fds))
             ELSE createNormal(r, Tail(fds))

RECURSIVE createBelongsTo(_, _)
\* The loop of create over the relationship fields: the foreign key of a
\* belongs_to field is listed when it is not changeable itself.  r.m.err
\* is the error of scope.FieldByName.
createBelongsTo(r, fds) ==
    IF fds = << >> THEN r
    ELSE IF ~(Head(fds).changeable /\ Head(fds).Kind = "belongs_to"
                                   /\ Head(fds).nfk > 0)
    THEN createBelongsTo(r, Tail(fds))
    ELSE With(Call(r.m, "FieldByName"), LAMBDA m1 :
         IF m1.err # Nil THEN [r EXCEPT !.m = m1]
         ELSE IF ~m1.e.Value.fkChangeable
         THEN createBelongsTo(
                [m |-> [m1 EXCEPT !.e = AddToVars(m1.e, m1.e.Value.fk)],
                 cols |-> Append(r.cols, "fk"),
                 marks |-> Append(r.marks,
                             Placeholder(Len(m1.e.SQLVars) + 1))],
                Tail(fds))
         ELSE createBelongsTo([r EXCEPT !.m = m1], Tail(fds)))

\* create: builds the INSERT.
create(m) ==
    Then(Call(m, "Fields"), LAMBDA m1 :
    With(createNormal([ctx |-> m1.e, cv |-> << >>, cols |-> << >>,
                       marks |-> << >>],
                      NormalFields(m1.e.Value)), LAMBDA r0 :
    With(createBelongsTo([m |-> [m1 EXCEPT !.e = r0.ctx],
                          cols |-> r0.cols, marks |-> r0.marks],
                         m1.e.Value.fields), LAMBDA r :
    Then(r.m, LAMBDA m1b :
    Then(Call(m1b, "PrimaryField"), LAMBDA m2 :
    With((IF m2.e.scope.InsertOptions THEN <<"OPTION">> ELSE << >>)
         \o LastInsertIDReturningSuffix(m2.e.dialect), LAMBDA tail :
        [m2 EXCEPT !.e.SQL =
            IF Len(r.cols) = 0
            THEN <<"INSERT", "DEFAULT VALUES">> \o tail
            ELSE <<"INSERT", "(">> \o r.cols \o <<")", "VALUES", "(">>
                 \o r.marks \o <<")">> \o tail]))))))

\* CreateExec, the branch without a returning suffix: Exec, in a
\* transaction on QL.
CreateExecStatement(m) ==
    IF IsQL(m.e.dialect)
    THEN Then(Call(m, "Begin"), LAMBDA m1 :
         With(Call(m1, "Exec"), LAMBDA m2 :
            IF m2.err # Nil
            THEN Then(Call(m2, "Rollback"), LAMBDA m3 : Fail(m3, m2.err))
            ELSE Call(m2, "Commit")))
    ELSE Call(m, "Exec")

\* CreateExec: executes the INSERT and assigns the primary key.
CreateExec(m) ==
    Then(Call(m, "PrimaryField"), LAMBDA m1 :
    With(m.e.Value, LAMBDA v :
        IF LastInsertIDReturningSuffix(m.e.dialect) = << >> \/ ~v.hasPK
        THEN \* no returning suffix, or no primary key
             Then(CreateExecStatement(m1), LAMBDA m2 :
             With(Call(m2, "RowsAffected"), LAMBDA m3 :
             With([m3 EXCEPT !.err = Nil,
                             !.e.RowsAffected =
                                 IF m3.err = Nil THEN m.db.affected ELSE 0],
                  LAMBDA m4 :
                IF v.hasPK /\ IsBlank(v)
                THEN Then(Call(m4, "LastInsertId"), LAMBDA m5 :
                        \* the result of primaryField.Set is dropped
                        IF v.addressable
                        THEN [m5 EXCEPT !.e.Value.id = m.db.lastId]
                        ELSE m5)
                ELSE m4)))
        ELSE IF v.addressable
        THEN Then(Call(m1, "QueryRow"), LAMBDA m7 :
                [m7 EXCEPT !.e.Value.id = m.db.lastId,
                           !.e.RowsAffected = 1])
        ELSE Fail(m1, ErrUnaddressable)))

----------------------------------------------------------------------------
(* Update steps (4.4) *)

\* UpdateTimestamp that stamps UpdatedAt on a column update too.
UpdateTimestamp_Always(m) == Call(m, "SetColumn UpdatedAt")

\* UpdateTimestamp: stamps UpdatedAt unless this is a column update.
UpdateTimestamp(m) ==
    IF ~m.e.scope.UpdateColumn THEN Call(m, "SetColumn UpdatedAt") ELSE m

\* AssignUpdatingAttrs: scope.UpdatedAttrsWithValues answers ok when the
\* caller's attributes change something.
AssignUpdatingAttrs(m) ==
    IF m.e.scope.UpdateInterface /\ m.e.scope.attrs # << >>
    THEN [m EXCEPT !.e.scope.UpdateAttrs = TRUE]
    ELSE m

RECURSIVE SetAttrs(_, _)
\* The SET clause of UpdateSQL from the update attributes.
SetAttrs(r, attrs) ==
    IF attrs = << >> THEN r
    ELSE SetAttrs(
           [ctx |-> AddToVars(r.ctx, Head(attrs).val),
            sqls |-> r.sqls
                     \o (IF r.sqls = << >> THEN << >> ELSE <<",">>)
                     \o <<Head(attrs).col \o " =",
                          Placeholder(Len(r.ctx.SQLVars) + 1)>>],
           Tail(attrs))

\* The SET clause of UpdateSQL from the record: its changeable normal
\* fields that are no primary key, and the foreign key of a belongs_to
\* field when that key is not changeable itself (a scope.FieldByName
\* error is skipped).
SetFields(m) ==
    With(m.e.Value, LAMBDA v :
    With(SelectSeq(NormalFields(v), LAMBDA f : f.changeable /\ ~f.isPK),
         LAMBDA normal :
    With(SelectSeq(v.fields,
                   LAMBDA f : f.changeable /\ f.Kind = "belongs_to"
                              /\ f.nfk > 0) # << >>, LAMBDA rels :
    With(IF rels THEN Call(m, "FieldByName") ELSE m, LAMBDA m1 :
    With(SetAttrs([ctx |-> m1.e, sqls |-> << >>],
                  [i \in 1..Len(normal) |->
                     [col |-> normal[i].name, val |-> normal[i].val]]
                  \o (IF rels /\ m1.err = Nil /\ ~v.fkChangeable
                      THEN <<[col |-> "fk", val |-> v.fk]>> ELSE << >>)),
         LAMBDA r :
        [m |-> [m1 EXCEPT !.err = Nil, !.e = r.ctx], sqls |-> r.sqls])))))

\* UpdateSQL: builds the UPDATE.
UpdateSQL(m) ==
    Then(Exec(m, "Update", "HookAssignUpdatingAttrs"), LAMBDA m1 :
    Then(IF m1.e.scope.UpdateAttrs THEN m1 ELSE Call(m1, "Fields"),
         LAMBDA m2 :
    With(IF m1.e.scope.UpdateAttrs
         THEN With(SetAttrs([ctx |-> m1.e, sqls |-> << >>],
                            m1.e.scope.attrs), LAMBDA a :
                 [m |-> [m1 EXCEPT !.e = a.ctx], sqls |-> a.sqls])
         ELSE SetFields(m2), LAMBDA r :
    With(IF r.sqls = << >> THEN r.m
         ELSE Then(Call(r.m, "CombinedCondition"), LAMBDA m3 :
              With(CombinedCondition(m3.e), LAMBDA c :
                 [m3 EXCEPT !.e = [c.ctx EXCEPT !.SQL =
                     <<"UPDATE", "SET">> \o r.sqls \o c.sql
                     \o (IF m.e.scope.UpdateOptions
                         THEN <<"OPTION">> ELSE << >>)]])),
         LAMBDA m4 :
        IF m4.err # Nil THEN m4
        ELSE IF m4.e.dialect \in {"ql", "ql-mem"}
        THEN [m4 EXCEPT !.e.SQL = WrapTX(@)]
        ELSE m4))))

\* UpdateExec that reports a statement matching no row as a missing record.
UpdateExec_NotFound(m) ==
    IF m.e.SQL = << >> THEN Fail(m, ErrMissingUpdateSQL)
    ELSE Then(Call(m, "Begin"), LAMBDA m1 :
         With(Call(m1, "Exec"), LAMBDA m2 :
            IF m2.err # Nil
            THEN Then(Call(m2, "Rollback"), LAMBDA m3 : Fail(m3, m2.err))
            ELSE Then(Call(m2, "RowsAffected"), LAMBDA m4 :
                 Then(Call([m4 EXCEPT !.e.RowsAffected = m.db.affected],
                           "Commit"), LAMBDA m5 :
                    IF m.db.affected = 0
                    THEN Fail(m5, ErrRecordNotFound)
                    ELSE m5))))

\* UpdateExec: executes the UPDATE in a transaction.
UpdateExec(m) ==
    IF m.e.SQL = << >> THEN Fail(m, ErrMissingUpdateSQL)
    ELSE Then(Call(m, "Begin"), LAMBDA m1 :
         With(Call(m1, "Exec"), LAMBDA m2 :
            IF m2.err # Nil
            THEN Then(Call(m2, "Rollback"), LAMBDA m3 : Fail(m3, m2.err))
            ELSE Then(Call(m2, "RowsAffected"), LAMBDA m4 :
                    Call([m4 EXCEPT !.e.RowsAffected = m.db.affected],
                         "Commit"))))

----------------------------------------------------------------------------
(* The QL fix-up after a create *)

ErrPanic == "panic: index out of range"
ErrAtoi == "strconv.Atoi: invalid syntax"

\* strings.LastIndex over the words of the statement; 0 when absent.
LastIndex(sql, word) ==
    LET at == {i \in 1..Len(sql) : sql[i] = word}
    IN  IF at = {} THEN 0 ELSE CHOOSE i \in at : \A j \in at : j <= i

RECURSIVE FirstDigit(_)
\* The first decimal digit of a number.
FirstDigit(k) == IF k < 10 THEN k ELSE FirstDigit(k \div 10)

\* The digit strconv.Atoi reads after " id = $": src[n] is one character,
\* the first digit of the parameter number.
Digits == [w \in {Placeholder(k) : k \in 0..(MaxVars + 1)} |->
             FirstDigit(CHOOSE k \in 0..(MaxVars + 1) : Placeholder(k) = w)]

\* fixWhere that does not compare the positions of " id = " and WHERE.
fixWhere_AnyOrder(ctx) ==
    LET src == ctx.SQL
        lastWhere == LastIndex(src, "WHERE")
        lastID == LastIndex(src, "id =")
        sql == [src EXCEPT ![lastID] = "id()="]
        ni == Digits[src[lastID + 1]] - 1
    IN  IF lastWhere = 0 \/ lastID = 0
        THEN [ctx |-> ctx, err |-> Nil]
        ELSE IF lastID = Len(src)
        THEN [ctx |-> [ctx EXCEPT !.SQL = sql], err |-> ErrPanic]
        ELSE IF src[lastID + 1] \notin DOMAIN Digits
        THEN [ctx |-> [ctx EXCEPT !.SQL = sql], err |-> ErrAtoi]
        ELSE IF ni + 1 \notin DOMAIN ctx.SQLVars
        THEN [ctx |-> [ctx EXCEPT !.SQL = sql], err |-> ErrPanic]
        ELSE [ctx |-> [ctx EXCEPT !.SQL = sql,
                                  !.SQLVars[ni + 1].t =
                                      IF @ = "uint64" THEN "int64" ELSE @],
              err |-> Nil]

\* fixWhere: rewrites the last " id = " that follows the last WHERE and
\* makes the parameter it names a signed integer.  src[n] is the second
\* character after " id = ": past the end of the text when the text ends
\* with " id = " or with one more character.
fixWhere(ctx) ==
    LET src == ctx.SQL
        lastWhere == LastIndex(src, "WHERE")
        lastID == LastIndex(src, "id =")
        sql == [src EXCEPT ![lastID] = "id()="]
        ni == Digits[src[lastID + 1]] - 1
    IN  IF lastWhere = 0 \/ lastID = 0 \/ lastID < lastWhere
        THEN [ctx |-> ctx, err |-> Nil]
        ELSE IF lastID = Len(src)
                \/ (lastID + 1 = Len(src) /\ src[lastID + 1] = "?")
        THEN [ctx |-> [ctx EXCEPT !.SQL = sql], err |-> ErrPanic]
        ELSE IF src[lastID + 1] \notin DOMAIN Digits
        THEN [ctx |-> [ctx EXCEPT !.SQL = sql], err |-> ErrAtoi]
        ELSE IF ni + 1 \notin DOMAIN ctx.SQLVars
        THEN [ctx |-> [ctx EXCEPT !.SQL = sql], err |-> ErrPanic]
        ELSE [ctx |-> [ctx EXCEPT !.SQL = sql,
                                  !.SQLVars[ni + 1].t =
                                      IF @ = "uint64" THEN "int64" ELSE @],
              err |-> Nil]

\* util.ToSearchableMap: the columns of the record.
ToSearchableMap(v) ==
    [i \in 1..Len(NormalFields(v)) |->
       [col |-> NormalFields(v)[i].name, val |-> NormalFields(v)[i].val]]

\* QLAfterCreate working on the caller's context instead of a clone.
QLAfterCreate_OnCaller(m) ==
    Then(MustExec(
           [m EXCEPT !.e.scope.IgnoreProtectedAttrs = TRUE,
                     !.e.scope.UpdateInterface = TRUE,
                     !.e.scope.attrs = ToSearchableMap(m.e.Value)],
           "Update", "HookUpdateSQL"), LAMBDA m1 :
    With(fixWhere(m1.e), LAMBDA fw :
    Then([m1 EXCEPT !.e = fw.ctx, !.err = fw.err], LAMBDA m2 :
       MustExec(m2, "Update", "HookUpdateExec"))))

\* QLAfterCreate: rebuilds and executes an UPDATE of the record just
\* created, on a clone of the context.  The caller's context is left as
\* it was.
QLAfterCreate(m) ==
    With(Then(MustExec(
                [m EXCEPT !.e =
                   [Clone(m.e) EXCEPT
                      !.scope.IgnoreProtectedAttrs = TRUE,
                      !.scope.UpdateInterface = TRUE,
                      !.scope.attrs = ToSearchableMap(m.e.Value),
                      !.Value = m.e.Value]],
                "Update", "HookUpdateSQL"), LAMBDA m1 :
         With(fixWhere(m1.e), LAMBDA fw :
         Then([m1 EXCEPT !.e = fw.ctx, !.err = fw.err], LAMBDA m2 :
            MustExec(m2, "Update", "HookUpdateExec")))),
         LAMBDA r : [r EXCEPT !.e = m.e])

\* AfterCreate: the QL fix-up, whose result is dropped, then the
\* has_one / has_many / many_to_many associations.
AfterCreate(m) ==
    MustExec(IF IsQL(m.e.dialect)
             THEN [QLAfterCreate(m) EXCEPT !.err = Nil] ELSE m,
             "Update", "HookSaveAfterAss")

----------------------------------------------------------------------------
(* Association cascades *)

\* The engine of a cascaded sub-operation: a clone whose value is v.
SubEngine(m, v) == [m EXCEPT !.e = [Clone(m.e) EXCEPT !.Value = v]]

\* Back in the caller: its own context, in which element j of relationship
\* field i is the record the sub-operation worked on (it is reached
\* through a pointer).
Return(m, r, i, j) ==
    [r EXCEPT !.e = [m.e EXCEPT !.Value.fields[i].elems[j] = r.e.Value]]

\* Creates the record of a sub-engine: the SQL-build and the execute step
\* of the create group, then the QL fix-up, whose result is dropped.
CreateAssociated(m) ==
    Then(MustExec(m, "Create", "HookCreateSQL"), LAMBDA m1 :
    Then(MustExec(m1, "Create", "HookCreateExec"), LAMBDA m2 :
        IF IsQL(m.e.dialect)
        THEN [QLAfterCreate(m2) EXCEPT !.err = Nil]
        ELSE m2))

RECURSIVE SaveBeforeFields(_, _)
\* The loop of SaveBeforeAssociation over the fields, from field i on.
SaveBeforeFields(m, i) ==
    IF i > Len(m.e.Value.fields) THEN m
    ELSE With(m.e.Value.fields[i], LAMBDA f :
         IF ~(f.save /\ f.Kind = "belongs_to")
         THEN SaveBeforeFields(m, i + 1)
         ELSE Then(Return(m, CreateAssociated(SubEngine(m, f.elems[1])),
                          i, 1), LAMBDA r1 :
              IF f.nfk = 0 THEN SaveBeforeFields(r1, i + 1)
              ELSE \* set the owner's foreign key: an error of
                   \* scope.FieldByName is skipped, an error of
                   \* scope.SetColumn is returned
                   With(Call(r1, "FieldByName"), LAMBDA r2 :
                   IF r2.err # Nil
                   THEN SaveBeforeFields([r2 EXCEPT !.err = Nil], i + 1)
                   ELSE Then(Call(r2, "SetColumn fk"), LAMBDA r3 :
                        SaveBeforeFields(
                          [r3 EXCEPT !.e.Value.fk =
                              r1.e.Value.fields[i].elems[1].id],
                          i + 1)))))

\* SaveBeforeAssociation: creates the belongs_to records of the value and
\* copies their keys into the value's foreign keys.
SaveBeforeAssociation(m) ==
    IF ~ShouldSaveAssociation(m.e) THEN m
    ELSE Then(Call(m, "Fields"), LAMBDA m1 : SaveBeforeFields(m1, 1))

\* The foreign key of the related record of a sub-engine is set to the
\* owner's key (scope.SetColumn on the sub-engine).
SetForeignKey(m, owner) ==
    Then(Call(m, "SetColumn fk"), LAMBDA m1 :
        [m1 EXCEPT !.e.Value.fk = owner.id])

SetPolymorphic(m) == Call(m, "SetColumn polymorphic")

\* The join-table row of a many_to_many element: always returns from
\* AfterAssociation.
AddJoinRelation(m) ==
    Then(Call([m EXCEPT !.e.SQL = << >>, !.e.SQLVars = << >>],
              "AddJoinRelation"), LAMBDA m0 :
        IF IsQL(m.e.dialect)
        THEN Then(Call(m0, "Begin"), LAMBDA m1 :
             With(Call(m1, "Exec"), LAMBDA m2 :
                IF m2.err # Nil
                THEN Fail(Call(m2, "Rollback"), m2.err)
                ELSE Call(m2, "Commit")))
        ELSE Call(m0, "Exec"))

\* One element of a sequence-valued relationship field.  ret says that
\* AfterAssociation returns with m.err.
AfterElement(m, i, j) ==
    With(m.e.Value.fields[i], LAMBDA f :
    With(Then(IF ~f.joinTable /\ f.nfk # 0
              THEN SetForeignKey(SubEngine(m, f.elems[j]), m.e.Value)
              ELSE SubEngine(m, f.elems[j]), LAMBDA m1 :
         Then(IF f.poly THEN SetPolymorphic(m1) ELSE m1, LAMBDA m2 :
            CreateAssociated(m2))), LAMBDA m3 :
        IF m3.err # Nil THEN [m |-> Return(m, m3, i, j), ret |-> TRUE]
        ELSE IF f.joinTable
        THEN [m |-> Return(m, AddJoinRelation(m3), i, j), ret |-> TRUE]
        ELSE [m |-> Return(m, m3, i, j), ret |-> FALSE]))

RECURSIVE AfterElements(_, _, _)
AfterElements(m, i, j) ==
    IF j > Len(m.e.Value.fields[i].elems) THEN [m |-> m, ret |-> FALSE]
    ELSE With(AfterElement(m, i, j), LAMBDA r :
            IF r.ret THEN r ELSE AfterElements(r.m, i, j + 1))

\* A struct-valued relationship field.
AfterStruct(m, i) ==
    With(m.e.Value.fields[i], LAMBDA f :
    With(Then(IF f.poly THEN SetPolymorphic(SubEngine(m, f.elems[1]))
              ELSE SubEngine(m, f.elems[1]), LAMBDA m1 :
         Then(IF f.nfk # 0 THEN SetForeignKey(m1, m.e.Value) ELSE m1,
              LAMBDA m2 :
            CreateAssociated(m2))), LAMBDA m3 :
        [m |-> Return(m, m3, i, 1), ret |-> m3.err # Nil]))

RECURSIVE AfterFields(_, _)
\* The loop of AfterAssociation over the fields, from field i on.
AfterFields(m, i) ==
    IF i > Len(m.e.Value.fields) THEN m
    ELSE With(m.e.Value.fields[i], LAMBDA f :
         IF ~(f.save /\ f.Kind \in {"has_many", "has_one", "many_to_many"})
         THEN AfterFields(m, i + 1)
         ELSE With(IF f.shape = "slice"
                   THEN AfterElements(m, i, 1) ELSE AfterStruct(m, i),
                   LAMBDA r :
                 IF r.ret THEN r.m ELSE AfterFields(r.m, i + 1)))

\* AfterAssociation: creates the has_one / has_many / many_to_many records
\* of the value.
AfterAssociation(m) ==
    IF ~ShouldSaveAssociation(m.e) THEN m
    ELSE Then(Call(m, "Fields"), LAMBDA m1 : AfterFields(m1, 1))

\* CreateSQL: the SQL-build step of the create group.
CreateSQL(m) ==
    Then(Exec(m, "Create", "BeforeCreate"), LAMBDA m1 :
    Then(IF ShouldSaveAssociation(m1.e)
         THEN MustExec(m1, "Create", "HookSaveBeforeAss") ELSE m1,
         LAMBDA m2 :
    Then(Exec(m2, "Create", "HookUpdateTimestamp"), LAMBDA m3 :
    Then(create(m3), LAMBDA m4 :
        [m4 EXCEPT !.e.SQL = IF m4.e.dialect \in {"ql", "ql-mem"}
                             THEN WrapTX(@) ELSE @]))))

----------------------------------------------------------------------------
(* Update pipeline (4.4) *)

\* BeforeUpdate with the condition check moved behind the preparatory steps.
BeforeUpdate_LateCheck(m) ==
    Then(MustExec(m, "Update", "HookUpdateTimestamp"), LAMBDA m1 :
    Then(MustExec(m1, "Update", "HookAssignUpdatingAttrs"), LAMBDA m2 :
    Then(MustExec(m2, "Update", "HookSaveBeforeAss"), LAMBDA m3 :
        IF ~HasConditions(m.e) THEN Fail(m3, ErrMissingWhereUpdate)
        ELSE m3)))


BeforeUpdate(m) ==
    IF ~HasConditions(m.e) THEN Fail(m, ErrMissingWhereUpdate)
    ELSE Then(MustExec(m, "Update", "HookUpdateTimestamp"), LAMBDA m1 :
         Then(MustExec(m1, "Update", "HookAssignUpdatingAttrs"),
              LAMBDA m2 :
         Then(MustExec(m2, "Update", "HookSaveBeforeAss"), LAMBDA m3 :
            IF m3.e.scope.UpdateColumn THEN m3
            ELSE Then(Exec(m3, "Save", "HookBeforeSave"), LAMBDA m4 :
                    Exec(m4, "Update", "HookBeforeUpdate")))))

\* AfterUpdate that saves the associations before it runs the user's
\* hooks.
AfterUpdate_CascadeFirst(m) ==
    IF ~HasConditions(m.e) THEN Fail(m, ErrMissingWhereUpdate)
    ELSE IF m.e.scope.UpdateColumn
    THEN MustExec(m, "Update", "HookSaveAfterAss")
    ELSE Then(MustExec(m, "Update", "HookSaveAfterAss"), LAMBDA m1 :
         Then(Exec(m1, "Update", "HookAfterUpdate"), LAMBDA m2 :
            Exec(m2, "Save", "HookAfterSave")))

AfterUpdate(m) ==
    IF ~HasConditions(m.e) THEN Fail(m, ErrMissingWhereUpdate)
    ELSE IF m.e.scope.UpdateColumn
    THEN MustExec(m, "Update", "HookSaveAfterAss")
    ELSE Then(Exec(m, "Update", "HookAfterUpdate"), LAMBDA m1 :
         Then(Exec(m1, "Save", "HookAfterSave"), LAMBDA m2 :
            MustExec(m2, "Update", "HookSaveAfterAss")))

\* The update driver going on to the execute step after a failed SQL build.
Update_Continue(m) ==
    Then(MustExec(m, "Update", "BeforeUpdate"), LAMBDA m1 :
    With(MustExec(m1, "Update", "HookUpdateSQL"), LAMBDA m2 :
    Then(MustExec(m2, "Update", "HookUpdateExec"), LAMBDA m3 :
        MustExec(m3, "Update", "AfterUpdate"))))


\* Update, the driver.
Update(m) ==
    Then(MustExec(m, "Update", "BeforeUpdate"), LAMBDA m1 :
    Then(MustExec(m1, "Update", "HookUpdateSQL"), LAMBDA m2 :
    Then(MustExec(m2, "Update", "HookUpdateExec"), LAMBDA m3 :
        MustExec(m3, "Update", "AfterUpdate"))))

----------------------------------------------------------------------------
(* Delete pipeline (4.5) *)

\* DeleteSQL that emits a physical DELETE whatever the table holds.
DeleteSQL_AlwaysDelete(m) ==
    Then(Call(m, "CombinedCondition"), LAMBDA m1 :
    With(FALSE, LAMBDA soft :
    With(CombinedCondition(m1.e), LAMBDA c :
    With(IF soft THEN AddToVars(c.ctx, m.db.now) ELSE c.ctx, LAMBDA c1 :
    With((IF soft
          THEN <<"UPDATE", "SET", "deleted_at=",
                 Placeholder(Len(c1.SQLVars))>>
          ELSE <<"DELETE FROM">>)
         \o c.sql
         \o (IF m.e.scope.DeleteOption THEN <<"OPTION">> ELSE << >>),
         LAMBDA sql :
        [m1 EXCEPT !.e = [c1 EXCEPT !.SQL =
                            IF m.e.dialect \in {"ql", "ql-mem"}
                            THEN WrapTX(sql) ELSE sql]])))))

\* DeleteSQL: a soft delete when the table has the DeletedAt column.
DeleteSQL(m) ==
    Then(Call(m, "CombinedCondition"), LAMBDA m1 :
    With(m.e.Value.kind = "struct" /\ m.e.Value.hasDeletedAt, LAMBDA soft :
    With(CombinedCondition(m1.e), LAMBDA c :
    With(IF soft THEN AddToVars(c.ctx, m.db.now) ELSE c.ctx, LAMBDA c1 :
    With((IF soft
          THEN <<"UPDATE", "SET", "deleted_at=",
                 Placeholder(Len(c1.SQLVars))>>
          ELSE <<"DELETE FROM">>)
         \o c.sql
         \o (IF m.e.scope.DeleteOption THEN <<"OPTION">> ELSE << >>),
         LAMBDA sql :
        [m1 EXCEPT !.e = [c1 EXCEPT !.SQL =
                            IF m.e.dialect \in {"ql", "ql-mem"}
                            THEN WrapTX(sql) ELSE sql]])))))

BeforeDelete(m) ==
    IF ~HasConditions(m.e) THEN Fail(m, ErrMissingWhereDelete)
    ELSE Exec(m, "Delete", "HookBeforeDelete")

AfterDelete(m) == Exec(m, "Delete", "HookAfterDelete")

\* The statement of Delete executed in a transaction whatever the dialect.
DeleteExec_AlwaysTx(m) ==
    Then(Call(m, "Begin"), LAMBDA m1 :
    With(Call(m1, "Exec"), LAMBDA m2 :
        IF m2.err # Nil
        THEN Fail(Call(m2, "Rollback"), m2.err)
        ELSE Then(Call(m2, "RowsAffected"), LAMBDA m4 :
                Call([m4 EXCEPT !.e.RowsAffected = m.db.affected],
                     "Commit"))))

\* The statement of Delete: in a transaction on QL, a plain Exec
\* otherwise.
DeleteExec(m) ==
    IF IsQL(m.e.dialect)
    THEN Then(Call(m, "Begin"), LAMBDA m1 :
         With(Call(m1, "Exec"), LAMBDA m2 :
            IF m2.err # Nil
            THEN \* the result of tx.Rollback is dropped
                 Fail(Call(m2, "Rollback"), m2.err)
            ELSE Then(Call(m2, "RowsAffected"), LAMBDA m4 :
                    Call([m4 EXCEPT !.e.RowsAffected = m.db.affected],
                         "Commit"))))
    ELSE Then(Call(m, "Exec"), LAMBDA m1 :
         Then(Call(m1, "RowsAffected"), LAMBDA m2 :
            [m2 EXCEPT !.e.RowsAffected = m.db.affected]))

\* Delete, the driver.
Delete(m) ==
    Then(MustExec(m, "Delete", "BeforeDelete"), LAMBDA m1 :
    Then(MustExec(m1, "Delete", "DeleteSQL"), LAMBDA m2 :
    Then(DeleteExec(m2), LAMBDA m3 :
        MustExec(m3, "Delete", "AfterDelete"))))

----------------------------------------------------------------------------
(* Association preloader (4.6) *)

\* The records of a value: the elements of a sequence, or the record.
Items(v) ==
    IF v.kind = "slice" THEN v.items
    ELSE IF v.kind = "struct" THEN <<v>> ELSE << >>

\* util.ColumnAsArray: the non-blank values of a key column over the
\* records of a value.
ColumnAsArray(col, v) ==
    LET keys == [i \in 1..Len(Items(v)) |-> Items(v)[i][col]]
    IN  SelectSeq(keys, LAMBDA k : k # 0)

\* PreloadDBWithConditions that drops the conditions.
PreloadDBWithConditions_Dropped(ctx, conditions) ==
    [pdb |-> Clone(ctx), conds |-> << >>]

\* PreloadDBWithConditions: a clone of the engine and a copy of the
\* conditions.
PreloadDBWithConditions(ctx, conditions) ==
    [pdb |-> Clone(ctx), conds |-> conditions]

\* The relationship fields scope.Fields finds on a value.
FieldsOf(v) ==
    IF v.kind = "struct" THEN v.fields
    ELSE IF v.kind = "slice" THEN Schema[v.type] ELSE << >>

\* Stores into relationship field f of a record.
SetField(o, f, elems) ==
    [o EXCEPT !.fields[f].elems = elems, !.fields[f].isNil = FALSE]

\* The secondary query of a has_one / has_many / belongs_to preload, run
\* through the query group on a clone: "col IN (keys)", the polymorphic
\* discriminator and the inline conditions, into a new sequence.
SecondaryQuery(m, f, col, keys, conditions) ==
    With(FieldsOf(m.e.Value)[f], LAMBDA d :
    With(PreloadDBWithConditions(m.e, conditions), LAMBDA p :
        MustExec([m EXCEPT !.e =
                    [p.pdb EXCEPT
                       !.where = <<Cond(col \o " IN", col, keys)>>
                                 \o (IF d.poly /\ d.Kind # "belongs_to"
                                     THEN <<Cond("polymorphic =", "*", << >>)>>
                                     ELSE << >>),
                       !.inline = p.conds,
                       !.Value = [Slice(<< >>) EXCEPT !.type = d.type]]],
                 "Query", "Query")))

RECURSIVE SetEach(_, _, _)
\* field.Set(result) for every result in turn, on a single owner.
SetEach(m, f, results) ==
    IF results = << >> THEN m
    ELSE Then(Call(m, "Set"), LAMBDA m1 :
            SetEach([m1 EXCEPT !.e.Value = SetField(@, f, <<Head(results)>>)],
                    f, Tail(results)))

\* PreloadHasOne that goes on after the first matching row of an owner: the
\* last one stays.
PreloadHasOne_NoBreak(m, f, conditions) ==
    With(ColumnAsArray("id", m.e.Value), LAMBDA primaryKeys :
    IF primaryKeys = << >> THEN m
    ELSE With(SecondaryQuery(m, f, "fk", primaryKeys, conditions),
              LAMBDA r :
         With(r.e.Value.items, LAMBDA results :
         Then([r EXCEPT !.e = m.e], LAMBDA back :
            IF m.e.Value.kind = "slice"
            THEN [back EXCEPT !.e.Value.items =
                    [j \in 1..Len(m.e.Value.items) |->
                       With(m.e.Value.items[j], LAMBDA o :
                       With(SelectSeq(results, LAMBDA x :
                                        KeyString(o.id) = KeyString(x.fk)),
                            LAMBDA match :
                          IF match # << >>
                          THEN SetField(o, f, <<match[Len(match)]>>) ELSE o))]]
            ELSE SetEach(back, f, results)))))

\* PreloadHasOne
PreloadHasOne(m, f, conditions) ==
    With(ColumnAsArray("id", m.e.Value), LAMBDA primaryKeys :
    IF primaryKeys = << >> THEN m
    ELSE With(SecondaryQuery(m, f, "fk", primaryKeys, conditions),
              LAMBDA r :
         With(r.e.Value.items, LAMBDA results :
         Then([r EXCEPT !.e = m.e], LAMBDA back :
            IF m.e.Value.kind = "slice"
            THEN [back EXCEPT !.e.Value.items =
                    [j \in 1..Len(m.e.Value.items) |->
                       With(m.e.Value.items[j], LAMBDA o :
                       With(SelectSeq(results, LAMBDA x :
                                        KeyString(o.id) = KeyString(x.fk)),
                            LAMBDA match :
                          IF match # << >>
                          THEN SetField(o, f, <<Head(match)>>) ELSE o))]]
            ELSE SetEach(back, f, results)))))

\* PreloadHasMany that sends its query even when no owner has a key.
PreloadHasMany_AlwaysQuery(m, f, conditions) ==
    With(ColumnAsArray("id", m.e.Value), LAMBDA primaryKeys :
    With(SecondaryQuery(m, f, "fk", primaryKeys, conditions),
              LAMBDA r :
         With(r.e.Value.items, LAMBDA results :
         Then([r EXCEPT !.e = m.e], LAMBDA back :
            IF m.e.Value.kind = "slice"
            THEN [back EXCEPT !.e.Value.items =
                    [j \in 1..Len(m.e.Value.items) |->
                       With(m.e.Value.items[j], LAMBDA o :
                       With(SelectSeq(results, LAMBDA x :
                                        KeyString(x.fk) = KeyString(o.id)),
                            LAMBDA group :
                          IF group # << >>
                          THEN \* appended to what the field holds
                               SetField(o, f, o.fields[f].elems \o group)
                          ELSE SetField(o, f, << >>)))]]
            ELSE Then(Call(back, "Set"), LAMBDA m1 :
                    [m1 EXCEPT !.e.Value = SetField(@, f, results)])))))

\* PreloadHasMany
PreloadHasMany(m, f, conditions) ==
    With(ColumnAsArray("id", m.e.Value), LAMBDA primaryKeys :
    IF primaryKeys = << >> THEN m
    ELSE With(SecondaryQuery(m, f, "fk", primaryKeys, conditions),
              LAMBDA r :
         With(r.e.Value.items, LAMBDA results :
         Then([r EXCEPT !.e = m.e], LAMBDA back :
            IF m.e.Value.kind = "slice"
            THEN [back EXCEPT !.e.Value.items =
                    [j \in 1..Len(m.e.Value.items) |->
                       With(m.e.Value.items[j], LAMBDA o :
                       With(SelectSeq(results, LAMBDA x :
                                        KeyString(x.fk) = KeyString(o.id)),
                            LAMBDA group :
                          IF group # << >>
                          THEN \* appended to what the field holds
                               SetField(o, f, o.fields[f].elems \o group)
                          ELSE SetField(o, f, << >>)))]]
            ELSE Then(Call(back, "Set"), LAMBDA m1 :
                    [m1 EXCEPT !.e.Value = SetField(@, f, results)])))))

\* PreloadBelongsTo
PreloadBelongsTo(m, f, conditions) ==
    With(ColumnAsArray("fk", m.e.Value), LAMBDA primaryKeys :
    IF primaryKeys = << >> THEN m
    ELSE With(SecondaryQuery(m, f, "id", primaryKeys, conditions),
              LAMBDA r :
         With(r.e.Value.items, LAMBDA results :
         Then([r EXCEPT !.e = m.e], LAMBDA back :
            IF m.e.Value.kind = "slice"
            THEN [back EXCEPT !.e.Value.items =
                    [j \in 1..Len(m.e.Value.items) |->
                       With(m.e.Value.items[j], LAMBDA o :
                       With(SelectSeq(results, LAMBDA x :
                                        KeyString(o.fk) = KeyString(x.id)),
                            LAMBDA match :
                          \* every matching result is stored in turn: the
                          \* last one stays
                          IF match # << >>
                          THEN SetField(o, f, <<match[Len(match)]>>)
                          ELSE o))]]
            ELSE SetEach(back, f, results)))))


ErrWrongSource == "wrong source type for join table handler"

\* JoinWith: a clone of the engine that joins the related table with the
\* join table and restricts the join table's source key to the keys of
\* the engine's own value.
JoinWith(m, d, source) ==
    Then(Call(m, "GetModelStruct"), LAMBDA m1 :
        IF source.kind \notin {"slice", "struct"}
        THEN Fail(m1, ErrWrongSource)
        ELSE With(ColumnAsArray("id", m.e.Value), LAMBDA foreignFieldValues :
             [m1 EXCEPT !.e =
                [Clone(m.e) EXCEPT
                   !.Value = source,
                   !.join = d.name,
                   !.where = <<IF Len(foreignFieldValues) > 0
                               THEN Cond("src IN", "src", foreignFieldValues)
                               ELSE Cond("1 <> 1", "src", << >>)>>]]))

\* The rows of the related table joined with the join table of the
\* relationship: one row per join-table row, with its source key.
JoinedRows(backend, ctx, type) ==
    LET js == IF ctx.join \in DOMAIN backend.joins
              THEN backend.joins[ctx.join] ELSE << >>
        table == IF type \in DOMAIN backend.tables
                 THEN backend.tables[type] ELSE << >>
        related(j) == SelectSeq(table, LAMBDA r : r.id = js[j].dst)
        ok == SelectSeq([j \in 1..Len(js) |-> j],
                        LAMBDA j : related(j) # << >>)
        rows == [k \in 1..Len(ok) |->
                   [id |-> related(ok[k])[1].id, fk |-> related(ok[k])[1].fk,
                    src |-> js[ok[k]].src]]
        conds == ctx.where
    IN  SelectSeq(rows, LAMBDA row :
                    \A c \in 1..Len(conds) : Passes(row, conds[c]))

RECURSIVE LinkRows(_, _, _, _)
\* The rows.Next() loop of PreloadManyToMany: r.links are the scanned
\* records with the source key of their join-table row.
LinkRows(m, rows, type, links) ==
    IF rows = << >> THEN [m |-> m, links |-> links]
    ELSE With(Call(m, "Fields"), LAMBDA m1 :
            IF m1.err # Nil THEN [m |-> m1, links |-> links]
            ELSE LinkRows(m1, Tail(rows), type,
                          Append(links,
                                 [key |-> KeyString(Head(rows).src),
                                  elem |-> Scan(New(type), Head(rows))])))

\* PreloadManyToMany
PreloadManyToMany(m, f, conditions) ==
    With(FieldsOf(m.e.Value)[f], LAMBDA d :
    With(PreloadDBWithConditions(m.e, conditions), LAMBDA p :
    With(Then(JoinWith([m EXCEPT !.e = p.pdb], d, m.e.Value), LAMBDA m1 :
         Then(Call([m1 EXCEPT !.e.where = @ \o p.conds], "PrepareQuery"),
              LAMBDA m2 :
         Then(Call(m2, "Query"), LAMBDA m3 :
         With(LinkRows(m3, JoinedRows(m.db, m3.e, d.type), d.type, << >>),
              LAMBDA r :
         Then(CloseRows(r.m), LAMBDA m4 :
            LET link(o) ==
                    With(SelectSeq(r.links, LAMBDA l :
                                     l.key = KeyString(o.id)),
                         LAMBDA mine : [k \in 1..Len(mine) |-> mine[k].elem])
                assign(o) ==
                    With(link(o), LAMBDA mine :
                       IF mine # << >> /\ Len(o.fields[f].elems) = 0
                       THEN SetField(o, f, mine) ELSE o)
            IN  IF m.e.Value.kind = "slice"
                THEN [m4 EXCEPT !.e =
                        [m.e EXCEPT !.Value.items =
                           [j \in 1..Len(m.e.Value.items) |->
                              assign(m.e.Value.items[j])]]]
                ELSE [m4 EXCEPT !.e =
                        [m.e EXCEPT !.Value = assign(m.e.Value)]]))))),
         LAMBDA out : IF out.err # Nil THEN [out EXCEPT !.e = m.e]
                      ELSE out)))


\* The position of the first field called name, 0 when there is none.
FieldIndex(fields, name) ==
    LET at == {i \in 1..Len(fields) : fields[i].name = name}
    IN  IF at = {} THEN 0 ELSE CHOOSE i \in at : \A j \in at : i <= j

RECURSIVE Flatten(_)
Flatten(seqs) == IF seqs = << >> THEN << >> ELSE Head(seqs) \o Flatten(Tail(seqs))

\* The value of the engine ColumnAsScope returns: for a sequence, the
\* records held by the column of every element; for a record, the column.
ColumnValue(v, name) ==
    LET f == FieldIndex(FieldsOf(v), name)
        d == FieldsOf(v)[f]
    IN  IF v.kind = "slice"
        THEN [Slice(Flatten([i \in 1..Len(v.items) |->
                               v.items[i].fields[f].elems]))
              EXCEPT !.type = d.type]
        ELSE IF d.shape = "slice"
        THEN [Slice(v.fields[f].elems) EXCEPT !.type = d.type]
        ELSE v.fields[f].elems[1]

\* Writes the records of a column value back where ColumnValue took them
\* from (ColumnAsScope hands out pointers into the owner).
PutColumnValue(v, name, nv) ==
    LET f == FieldIndex(FieldsOf(v), name)
        n(i) == Len(v.items[i].fields[f].elems)
        off(i) == Len(Flatten([k \in 1..(i - 1) |->
                                 v.items[k].fields[f].elems]))
    IN  IF v.kind = "slice"
        THEN [v EXCEPT !.items =
                [i \in 1..Len(v.items) |->
                   [v.items[i] EXCEPT !.fields[f].elems =
                      SubSeq(nv.items, off(i) + 1, off(i) + n(i))]]]
        ELSE IF v.fields[f].shape = "slice"
        THEN [v EXCEPT !.fields[f].elems = nv.items]
        ELSE [v EXCEPT !.fields[f].elems = <<nv>>]

RECURSIVE Level(_, _)
\* The value of the engine reached from the root by ColumnAsScope along
\* the names.
Level(root, names) ==
    IF names = << >> THEN root
    ELSE ColumnValue(Level(root, SubSeq(names, 1, Len(names) - 1)),
                     names[Len(names)])

RECURSIVE PutLevel(_, _, _)
PutLevel(root, names, nv) ==
    IF names = << >> THEN nv
    ELSE LET front == SubSeq(names, 1, Len(names) - 1)
         IN  PutLevel(root, front,
                      PutColumnValue(Level(root, front), names[Len(names)], nv))

ErrColumn(column) == "can get engine out of column " \o column

\* ColumnAsScope: m.err says whether an engine for the column exists.
ColumnAsScope(m, v, column) ==
    With(FieldIndex(FieldsOf(v), column), LAMBDA f :
        IF v.kind = "slice"
        THEN Then(Call(m, "GetModelStruct"), LAMBDA m1 :
                IF f = 0 THEN Fail(m1, ErrColumn(column)) ELSE m1)
        ELSE IF v.kind = "struct" /\ f # 0 /\ v.addressable THEN m
        ELSE Fail(m, ErrColumn(column)))

ErrUnsupportedRelation(kind) ==
    "hooks: can't preload " \o kind \o "unsupported relation"

ErrCantPreload(field, type) ==
    "can't preload field " \o field \o " for " \o type

\* One relationship of the current level, by kind.
PreloadField(m, f, conds) ==
    LET kind == FieldsOf(m.e.Value)[f].Kind
    IN  CASE kind = "has_one" -> PreloadHasOne(m, f, conds)
          [] kind = "has_many" -> PreloadHasMany(m, f, conds)
          [] kind = "belongs_to" -> PreloadBelongsTo(m, f, conds)
          [] kind = "many_to_many" -> PreloadManyToMany(m, f, conds)
          [] OTHER -> Fail(m, ErrUnsupportedRelation(kind))

RECURSIVE PreloadSegments(_, _, _, _)
\* The loop of Preload over the segments of path p, from segment idx on.
\* done is preloadedMap; ret says that Preload returns with m.err.
PreloadSegments(m, p, idx, done) ==
    IF idx > Len(m.e.preload[p].path)
    THEN [m |-> m, done |-> done, ret |-> FALSE]
    ELSE
    With(m.e.preload[p].path, LAMBDA path :
    With(SubSeq(path, 1, idx - 1), LAMBDA prefix :
    With(SubSeq(path, 1, idx), LAMBDA preloadKey :
    With(Level(m.e.Value, prefix), LAMBDA csv :
    With(FieldIndex(FieldsOf(csv), path[idx]), LAMBDA f :
    With(IF preloadKey \in done THEN m
         ELSE IF f = 0
         THEN Then(Call(m, "GetModelStruct"), LAMBDA m2 :
                 Fail(m2, ErrCantPreload(path[idx], m.e.Value.type)))
         ELSE With(PreloadField(
                     [m EXCEPT !.e = IF idx = 1 THEN m.e
                                     ELSE [Clone(m.e) EXCEPT !.Value = csv]],
                     f,
                     IF idx = Len(path) THEN m.e.preload[p].conds
                     ELSE << >>),
                   LAMBDA r :
                 \* the owners are reached through pointers into the root
                 \* value
                 [r EXCEPT !.e = [m.e EXCEPT !.Value =
                                    PutLevel(m.e.Value, prefix, r.e.Value)]]),
         LAMBDA m3 :
        IF m3.err # Nil THEN [m |-> m3, done |-> done, ret |-> TRUE]
        ELSE IF idx = Len(path)
        THEN [m |-> m3, done |-> done \cup {preloadKey}, ret |-> FALSE]
        ELSE With(Then(ColumnAsScope(m3, Level(m3.e.Value, prefix),
                                     path[idx]),
                       LAMBDA m4 : Call(m4, "Fields")),
                  LAMBDA m5 :
                IF m5.err # Nil
                THEN [m |-> m5, done |-> done \cup {preloadKey},
                      ret |-> TRUE]
                ELSE PreloadSegments(m5, p, idx + 1,
                                     done \cup {preloadKey}))))))))

RECURSIVE PreloadPaths_Forget(_, _, _)
\* The loop over the paths with a preloadedMap that is emptied after every
\* path.
PreloadPaths_Forget(m, p, done) ==
    IF p > Len(m.e.preload) THEN m
    ELSE With(PreloadSegments(m, p, 1, {}), LAMBDA r :
            IF r.ret THEN r.m ELSE PreloadPaths_Forget(r.m, p + 1, {}))

RECURSIVE PreloadPaths(_, _, _)
PreloadPaths(m, p, done) ==
    IF p > Len(m.e.preload) THEN m
    ELSE With(PreloadSegments(m, p, 1, done), LAMBDA r :
            IF r.ret THEN r.m ELSE PreloadPaths(r.m, p + 1, r.done))

\* Preload: resolves every path of the preload specification.
Preload(m) ==
    IF m.e.preload = << >> THEN m
    ELSE Then(Call(m, "Fields"), LAMBDA m1 : PreloadPaths(m1, 1, {}))

----------------------------------------------------------------------------
(* Query pipeline (4.3): the driver *)

\* AfterQuery: the preloads, then the user's after-find hook.
AfterQuery(m) ==
    Then(IF m.e.preload # << >> THEN Preload(m) ELSE m, LAMBDA m1 :
        Exec(m1, "Query", "HookAfterFindQuery"))

\* Query, the driver.
Query(m) ==
    Then(MustExec(m, "Query", "HookQuerySQL"), LAMBDA m1 :
    Then(MustExec(m1, "Query", "HookQueryExec"), LAMBDA m2 :
        Exec(m2, "Query", "HookAfterQuery")))

----------------------------------------------------------------------------
(* The functions of the hook book *)

BuiltIn ==
    {"Query", "QuerySQL", "QueryExec", "AfterQuery",
     "Create", "BeforeCreate", "CreateSQL", "CreateExec", "AfterCreate",
     "Update", "BeforeUpdate", "UpdateTimestamp", "AssignUpdatingAttrs",
     "SaveBeforeAssociation", "UpdateSQL", "UpdateExec", "AfterUpdate",
     "AfterAssociation",
     "Delete", "BeforeDelete", "DeleteSQL", "AfterDelete"}

\* Invokes one registered function on (b, e).
RunFn(m, fn) ==
    With([m EXCEPT !.steps = Append(@, [ev |-> "call", fn |-> fn,
                                        by |-> m.cur, lvl |-> m.e.level,
                                        err |-> Nil]),
                   !.cur = fn],
         LAMBDA m0 :
    With(
        CASE fn = "Query" -> Query(m0)
          [] fn = "QuerySQL" -> QuerySQL(m0)
          [] fn = "QueryExec" -> QueryExec(m0)
          [] fn = "AfterQuery" -> AfterQuery(m0)
          [] fn = "Create" -> Create(m0)
          [] fn = "BeforeCreate" -> BeforeCreate(m0)
          [] fn = "CreateSQL" -> CreateSQL(m0)
          [] fn = "CreateExec" -> CreateExec(m0)
          [] fn = "AfterCreate" -> AfterCreate(m0)
          [] fn = "Update" -> Update(m0)
          [] fn = "BeforeUpdate" -> BeforeUpdate(m0)
          [] fn = "UpdateTimestamp" -> UpdateTimestamp(m0)
          [] fn = "AssignUpdatingAttrs" -> AssignUpdatingAttrs(m0)
          [] fn = "SaveBeforeAssociation" -> SaveBeforeAssociation(m0)
          [] fn = "UpdateSQL" -> UpdateSQL(m0)
          [] fn = "UpdateExec" -> UpdateExec(m0)
          [] fn = "AfterUpdate" -> AfterUpdate(m0)
          [] fn = "AfterAssociation" -> AfterAssociation(m0)
          [] fn = "Delete" -> Delete(m0)
          [] fn = "BeforeDelete" -> BeforeDelete(m0)
          [] fn = "DeleteSQL" -> DeleteSQL(m0)
          [] fn = "AfterDelete" -> AfterDelete(m0)
          [] OTHER -> UserHook(m0, fn),
         LAMBDA r :
        [r EXCEPT !.steps = Append(@, [ev |-> "ret", fn |-> fn,
                                       by |-> m.cur, lvl |-> m.e.level,
                                       err |-> r.err]),
                  !.cur = m.cur]))

----------------------------------------------------------------------------
(* The default book and the registration of user functions *)

\* The built-in registrations: group, name, function.
Defaults ==
    {<<"Query", "Query", "Query">>,
     <<"Query", "HookQuerySQL", "QuerySQL">>,
     <<"Query", "HookQueryExec", "QueryExec">>,
     <<"Query", "HookAfterQuery", "AfterQuery">>,
     <<"Create", "Create", "Create">>,
     <<"Create", "BeforeCreate", "BeforeCreate">>,
     <<"Create", "HookCreateSQL", "CreateSQL">>,
     <<"Create", "HookCreateExec", "CreateExec">>,
     <<"Create", "AfterCreate", "AfterCreate">>,
     <<"Create", "HookSaveBeforeAss", "SaveBeforeAssociation">>,
     <<"Create", "HookUpdateTimestamp", "UpdateTimestamp">>,
     <<"Update", "Update", "Update">>,
     <<"Update", "BeforeUpdate", "BeforeUpdate">>,
     <<"Update", "HookUpdateTimestamp", "UpdateTimestamp">>,
     <<"Update", "HookAssignUpdatingAttrs", "AssignUpdatingAttrs">>,
     <<"Update", "HookSaveBeforeAss", "SaveBeforeAssociation">>,
     <<"Update", "HookUpdateSQL", "UpdateSQL">>,
     <<"Update", "HookUpdateExec", "UpdateExec">>,
     <<"Update", "AfterUpdate", "AfterUpdate">>,
     <<"Update", "HookSaveAfterAss", "AfterAssociation">>,
     <<"Delete", "Delete", "Delete">>,
     <<"Delete", "BeforeDelete", "BeforeDelete">>,
     <<"Delete", "DeleteSQL", "DeleteSQL">>,
     <<"Delete", "AfterDelete", "AfterDelete">>}

DefaultBook ==
    [k \in {<<r[1], r[2]>> : r \in Defaults} |->
       <<(CHOOSE r \in Defaults : <<r[1], r[2]>> = k)[3]>>]

\* The hook points the pipelines leave to the user.
UserPoints ==
    {<<"Create", "HookBeforeSave">>, <<"Create", "HookBeforeCreate">>,
     <<"Save", "HookBeforeSave">>, <<"Update", "HookBeforeUpdate">>,
     <<"Update", "HookAfterUpdate">>, <<"Save", "HookAfterSave">>,
     <<"Delete", "HookBeforeDelete">>, <<"Delete", "HookAfterDelete">>,
     <<"Query", "HookAfterFindQuery">>}

\* Register: appends fn to the functions of (group, name).
Register(b, key, fn) ==
    IF key \in DOMAIN b
    THEN [b EXCEPT ![key] = Append(@, fn)]
    ELSE [k \in DOMAIN b \cup {key} |-> IF k = key THEN <<fn>> ELSE b[k]]

RECURSIVE SumLen(_, _)
SumLen(b, keys) ==
    IF keys = {} THEN 0
    ELSE LET k == CHOOSE x \in keys : TRUE
         IN  Len(b[k]) + SumLen(b, keys \ {k})

\* How many functions the user has registered.
UserHooks(b) == SumLen(b, DOMAIN b) - Cardinality(Defaults)

----------------------------------------------------------------------------
(* Inputs *)

\* Which external calls fail: none, one, or two in a row.
\* The calls that fail: none, one, or one and the call made right after it
\* (the rollback of a failed statement).
FaultSets ==
    {{}} \cup {{n} : n \in 1..MaxCalls} \cup {{n, n + 1} : n \in 1..MaxCalls}

Rows(n) == [i \in 1..n |-> [id |-> i, fk |-> 0]]

NoTables == [t \in {} |-> << >>]

\* The backend of a call: the row count and the id a statement reports,
\* the rows a query returns.
Backends ==
    {[affected |-> a, lastId |-> 7, now |-> 99, rows |-> Rows(a),
      tables |-> NoTables, joins |-> NoTables] : a \in {0, MaxRows}}

\* The engine a caller builds around a value.
Engine(dialect, value) ==
    [Clone([dialect |-> dialect, level |-> -1]) EXCEPT !.Value = value]

AnyCond == Cond("cond", "*", << >>)

\* The records the write pipelines are called with.
Child(t) == New(t)

Plain == Struct(0, 0)

Saved == Struct(5, 3)

WithCompany ==
    [Struct(0, 0) EXCEPT !.fields =
       <<Relation("Company", "belongs_to", "struct", "Company",
                  <<Child("Company")>>)>>]

WithItems ==
    [Struct(5, 0) EXCEPT !.fields =
       <<Relation("Items", "has_many", "slice", "Item",
                  <<Child("Item"), Child("Item")>>)>>]

WithTags ==
    [Struct(0, 0) EXCEPT !.fields =
       <<Relation("Tags", "many_to_many", "slice", "Tag",
                  <<Child("Tag"), Child("Tag")>>),
         Relation("Profile", "has_one", "struct", "Profile",
                  <<Child("Profile")>>)>>]

UpdateRecords == {Plain, Saved, WithCompany, WithItems}

DeleteRecords == {Plain, [Struct(5, 0) EXCEPT !.hasDeletedAt = TRUE]}

CreateRecords == {Plain, Saved, WithCompany, WithTags}

InsertRecords ==
    {Plain, Saved, [Struct(0, 0) EXCEPT !.addressable = FALSE],
     [Struct(0, 0) EXCEPT !.hasPK = FALSE]}

AssociationRecords == {WithItems, WithTags}

\* The destinations queries are called with.
Destinations ==
    {Struct(0, 0), Struct(4, 0), Slice(<< >>), Slice(<<Struct(9, 0)>>),
     [kind |-> "other", type |-> "Record"]}

----------------------------------------------------------------------------
(* Record metadata cache: SafeModelStructsMap and its callers *)

\* The record types metadata is asked for.
ModelTypes == {"Owner", "Item"}

Requesters == 1..MaxRequesters

\* No *ModelStruct: what the map holds for a missing key.
NoStruct == 0

\* NewModelStructsMap: an empty map and a free lock; no goroutine has
\* asked yet.
InitStructs ==
    /\ sm = [m |-> [t \in ModelTypes |-> NoStruct],
             readers |-> 0, writer |-> FALSE]
    /\ req = [p \in Requesters |->
                [at |-> "idle", key |-> "Owner", built |-> NoStruct,
                 got |-> NoStruct, probes |-> 0]]
    /\ sets = [t \in ModelTypes |-> 0]

\* A goroutine asks for the metadata of record type t.
Request(p, t) ==
    /\ req[p].at = "idle"
    /\ req' = [req EXCEPT ![p] = [at |-> "get", key |-> t,
                                  built |-> NoStruct, got |-> NoStruct,
                                  probes |-> 0]]
    /\ UNCHANGED <<sm, sets>>

\* Get: s.l.RLock().
GetRLock(p) ==
    /\ req[p].at = "get"
    /\ ~sm.writer
    /\ sm' = [sm EXCEPT !.readers = @ + 1]
    /\ req' = [req EXCEPT ![p].at = "reading"]
    /\ UNCHANGED sets

\* Get: return s.m[key], with the deferred s.l.RUnlock().  The caller
\* returns what it found; on a miss it builds the metadata after the
\* first probe and stores it after the second.
GetRead(p) ==
    /\ req[p].at = "reading"
    /\ sm' = [sm EXCEPT !.readers = @ - 1]
    /\ req' = [req EXCEPT
                 ![p].probes = @ + 1,
                 ![p].got = sm.m[req[p].key],
                 ![p].at = IF sm.m[req[p].key] # NoStruct THEN "done"
                           ELSE IF req[p].probes = 0 THEN "build"
                           ELSE "set"]
    /\ UNCHANGED sets

\* The caller builds the metadata of the type: a new ModelStruct, then
\* probes the map once more.
Build(p) ==
    /\ req[p].at = "build"
    /\ req' = [req EXCEPT ![p].built = p, ![p].at = "get"]
    /\ UNCHANGED <<sm, sets>>

\* Set: s.l.Lock().
SetLock(p) ==
    /\ req[p].at = "set"
    /\ ~sm.writer /\ sm.readers = 0
    /\ sm' = [sm EXCEPT !.writer = TRUE]
    /\ req' = [req EXCEPT ![p].at = "writing"]
    /\ UNCHANGED sets

\* Set: s.m[key] = value, with the deferred s.l.Unlock().  The caller
\* returns the ModelStruct it built.
SetStore(p) ==
    /\ req[p].at = "writing"
    /\ sm' = [sm EXCEPT !.m[req[p].key] = req[p].built, !.writer = FALSE]
    /\ sets' = [sets EXCEPT ![req[p].key] = @ + 1]
    /\ req' = [req EXCEPT ![p].got = req[p].built, ![p].at = "done"]

\* The goroutine is done with the metadata it obtained.
Finish(p) ==
    /\ req[p].at = "done"
    /\ req' = [req EXCEPT ![p].at = "idle"]
    /\ UNCHANGED <<sm, sets>>

NextStructs ==
    \/ \E p \in Requesters, t \in ModelTypes : Request(p, t)
    \/ \E p \in Requesters : GetRLock(p)
    \/ \E p \in Requesters : GetRead(p)
    \/ \E p \in Requesters : Build(p)
    \/ \E p \in Requesters : SetLock(p)
    \/ \E p \in Requesters : SetStore(p)
    \/ \E p \in Requesters : Finish(p)

----------------------------------------------------------------------------
(* The state machine: calls on an engine *)

Machine(b, ctx, backend, faults) ==
    [book |-> b, e |-> ctx, db |-> backend, failAt |-> faults,
     calls |-> << >>, steps |-> << >>, cur |-> "", err |-> Nil]

\* The call op returned r for the engine ctx.
Returns(name, ctx, backend, faults, r) ==
    /\ \A n \in faults : n <= Len(r.calls)
    /\ pc' = "done"
    /\ op' = name
    /\ failAt' = faults
    /\ db' = backend
    /\ e0' = ctx
    /\ e' = r.e
    /\ calls' = r.calls
    /\ steps' = r.steps
    /\ err' = r.err
    /\ UNCHANGED <<book, sm, req, sets>>

NoEngine == Engine("mysql", NoValue)

Init ==
    /\ pc = "idle"
    /\ op = "none"
    /\ book = DefaultBook
    /\ failAt = {}
    /\ db = CHOOSE b \in Backends : b.affected = 0
    /\ e0 = NoEngine
    /\ e = NoEngine
    /\ calls = << >>
    /\ steps = << >>
    /\ err = Nil
    /\ InitStructs

\* The user registers a function at a hook point.
DoRegister ==
    /\ pc = "idle"
    /\ UserHooks(book) < MaxHooks
    /\ \E key \in UserPoints :
         book' = Register(book, key, "user " \o key[2])
    /\ UNCHANGED <<pc, op, failAt, db, e0, e, calls, steps, err, sm, req, sets>>

\* Update of a record, with or without a condition, as a full save or as
\* a column update with attributes.
DoUpdate ==
    /\ pc = "idle"
    /\ \E d \in {"ql", "mysql"}, v \in UpdateRecords,
          w \in {<< >>, <<AnyCond>>}, col \in BOOLEAN,
          backend \in Backends, faults \in FaultSets, prior \in {MaxPrior} :
         LET ctx == [Engine(d, v) EXCEPT
                       !.where = w,
                       !.RowsAffected = prior,
                       !.scope.UpdateColumn = col,
                       !.scope.UpdateInterface = col,
                       !.scope.attrs = IF col
                                       THEN <<[col |-> "fk", val |-> 8]>>
                                       ELSE << >>]
         IN  Returns("Update", ctx, backend, faults,
                     RunFn(Machine(book, ctx, backend, faults), "Update"))

\* Delete of a record, with or without a condition.
DoDelete ==
    /\ pc = "idle"
    /\ \E d \in {"ql", "mysql"}, v \in DeleteRecords,
          w \in {<< >>, <<AnyCond>>}, opt \in BOOLEAN,
          backend \in Backends, faults \in FaultSets, prior \in {MaxPrior} :
         LET ctx == [Engine(d, v) EXCEPT !.where = w,
                                         !.RowsAffected = prior,
                                         !.scope.DeleteOption = opt]
         IN  Returns("Delete", ctx, backend, faults,
                     RunFn(Machine(book, ctx, backend, faults), "Delete"))

\* Create of a record.
DoCreate ==
    /\ pc = "idle"
    /\ \E d \in Dialects, v \in CreateRecords, backend \in Backends,
          faults \in FaultSets :
         LET ctx == Engine(d, v)
         IN  Returns("Create", ctx, backend, faults,
                     RunFn(Machine(book, ctx, backend, faults), "Create"))

\* Query into a destination.
DoQuery ==
    /\ pc = "idle"
    /\ \E d \in {"ql", "mysql"}, v \in Destinations,
          w \in {<< >>, <<AnyCond>>}, backend \in Backends,
          faults \in FaultSets, prior \in {MaxPrior} :
         LET ctx == [Engine(d, v) EXCEPT !.where = w,
                                         !.RowsAffected = prior]
         IN  Returns("Query", ctx, backend, faults,
                     RunFn(Machine(book, ctx, backend, faults), "Query"))

\* A prepared statement, as the SQL-build step leaves it.
Prepared(ctx, sql, n) ==
    [ctx EXCEPT !.SQL = sql,
                !.SQLVars = [i \in 1..n |-> Var("int64", i)]]

\* QueryExec called on a prepared engine.
DoQueryExec ==
    /\ pc = "idle"
    /\ \E d \in {"ql", "mysql"}, v \in Destinations, backend \in Backends,
          faults \in FaultSets, prior \in {MaxPrior}, opt \in BOOLEAN,
          qd \in BOOLEAN :
         LET ctx == [Prepared(Engine(d, IF qd THEN Struct(1, 1) ELSE v),
                              <<"SELECT">>, 1)
                     EXCEPT !.RowsAffected = prior,
                            !.scope.QueryOption = opt,
                            !.scope.QueryDestination = qd,
                            !.dest = IF qd THEN v ELSE NoValue]
         IN  Returns("QueryExec", ctx, backend, faults,
                     RunFn(Machine(book, ctx, backend, faults), "QueryExec"))

\* UpdateExec called on a prepared engine.
DoUpdateExec ==
    /\ pc = "idle"
    /\ \E d \in {"ql", "mysql"}, sql \in {<< >>, <<"UPDATE">>},
          backend \in Backends, faults \in FaultSets, prior \in {MaxPrior} :
         LET ctx == [Prepared(Engine(d, Struct(5, 0)), sql, 1)
                     EXCEPT !.RowsAffected = prior]
         IN  Returns("UpdateExec", ctx, backend, faults,
                     RunFn(Machine(book, ctx, backend, faults), "UpdateExec"))

\* CreateExec called on a prepared engine.
DoCreateExec ==
    /\ pc = "idle"
    /\ \E d \in Dialects, v \in InsertRecords, backend \in Backends,
          faults \in FaultSets, prior \in {MaxPrior} :
         LET ctx == [Prepared(Engine(d, v), <<"INSERT">>, 1)
                     EXCEPT !.RowsAffected = prior]
         IN  Returns("CreateExec", ctx, backend, faults,
                     RunFn(Machine(book, ctx, backend, faults), "CreateExec"))

\* The records create builds an INSERT for.
BuildRecords ==
    {[Struct(id, fk) EXCEPT !.hasPK = pk, !.fkDefault = def,
                            !.fkChangeable = chg, !.fields = fs] :
        id \in {0, 5}, fk \in {0, 3}, pk \in BOOLEAN, def \in BOOLEAN,
        chg \in BOOLEAN, fs \in {<< >>, WithCompany.fields}}

\* The statements fixWhere is called on: with and without WHERE and
\* " id = ", in either order, with the parameter of " id = " missing, not
\* numbered, numbered 0, numbered with two digits, and followed by more.
FixStatements ==
    {<<"UPDATE", "SET", "fk =", Placeholder(1),
       "WHERE", "id =", Placeholder(2)>>,
     <<"UPDATE", "SET", "fk =", Placeholder(1)>>,
     <<"UPDATE", "SET", "id =", Placeholder(1)>>,
     <<"UPDATE", "SET", "fk =", Placeholder(1),
       "WHERE", "fk =", Placeholder(2)>>,
     <<"UPDATE", "SET", "id =", Placeholder(1),
       "WHERE", "fk =", Placeholder(2)>>,
     <<"UPDATE", "SET", "fk =", Placeholder(1), "WHERE", "id =">>,
     <<"UPDATE", "SET", "fk =", "?", "WHERE", "id =", "?">>,
     <<"UPDATE", "SET", "fk =", "?", "WHERE", "id =", "?", "AND", "fk =", "?">>,
     <<"UPDATE", "SET", "fk =", Placeholder(1),
       "WHERE", "id =", Placeholder(MaxVars)>>,
     <<"UPDATE", "SET", "fk =", Placeholder(1),
       "WHERE", "id =", Placeholder(0)>>,
     <<"UPDATE", "WHERE", "id =", Placeholder(1),
       "AND", "id =", Placeholder(2)>>,
     <<"UPDATE", "WHERE", "id =", Placeholder(1),
       "AND", "fk =", Placeholder(2)>>}

\* The parameter lists fixWhere is called on: n parameters, all unsigned,
\* all signed, or unsigned at the odd positions.
FixVars ==
    {[i \in 1..n |-> Var(IF u = "all" \/ (u = "odd" /\ i % 2 = 1)
                         THEN "uint64" ELSE "int64", i)] :
        n \in {0, 1, 2, MaxVars}, u \in {"all", "none", "odd"}}

\* fixWhere called on the scope of an engine that holds a statement; it is
\* not dispatched through the book.
DofixWhere ==
    /\ pc = "idle"
    /\ book = DefaultBook
    /\ \E sql \in FixStatements, vs \in FixVars :
         LET ctx == [Engine("ql", Saved) EXCEPT !.SQL = sql, !.SQLVars = vs]
             fw == fixWhere(ctx)
         IN  Returns("fixWhere", ctx, db, {},
                     [Machine(book, ctx, db, {})
                      EXCEPT !.e = fw.ctx, !.err = fw.err])

\* create called on an engine that may hold parameters already; it is not
\* dispatched through the book.
Docreate ==
    /\ pc = "idle"
    /\ book = DefaultBook
    /\ \E d \in Dialects, v \in BuildRecords, n \in 0..MaxPrior,
          opt \in BOOLEAN, backend \in Backends,
          faults \in {{}} \cup {{k} : k \in 1..3} :
         LET ctx == [Prepared(Engine(d, v), << >>, n)
                     EXCEPT !.scope.InsertOptions = opt]
             m == [Machine(book, ctx, backend, faults) EXCEPT !.cur = "create"]
         IN  Returns("create", ctx, backend, faults, create(m))

\* DeleteSQL called on an engine that may hold parameters already; it
\* calls no other function of the book.
DoDeleteSQL ==
    /\ pc = "idle"
    /\ book = DefaultBook
    /\ \E d \in Dialects,
          v \in DeleteRecords
                 \cup {[Struct(0, 0) EXCEPT !.hasDeletedAt = TRUE]},
          w \in {<< >>, <<AnyCond>>}, opt \in BOOLEAN, n \in 0..MaxPrior,
          backend \in Backends, faults \in {{}, {1}} :
         LET ctx == [Prepared(Engine(d, v), << >>, n)
                     EXCEPT !.where = w, !.scope.DeleteOption = opt]
         IN  Returns("DeleteSQL", ctx, backend, faults,
                     RunFn(Machine(book, ctx, backend, faults), "DeleteSQL"))

\* AfterAssociation called on the engine of a saved record.
DoAfterAssociation ==
    /\ pc = "idle"
    /\ \E d \in {"ql", "mysql"}, v \in AssociationRecords,
          backend \in Backends, faults \in FaultSets, save \in BOOLEAN :
         LET ctx == [Prepared(Engine(d, v), <<"INSERT">>, 1)
                     EXCEPT !.scope.SaveAssociations = save,
                            !.RowsAffected = MaxPrior]
         IN  Returns("AfterAssociation", ctx, backend, faults,
                     RunFn(Machine(book, ctx, backend, faults),
                           "AfterAssociation"))

\* SaveBeforeAssociation called on the engine of a record about to be
\* saved, which may hold a statement already.
DoSaveBeforeAssociation ==
    /\ pc = "idle"
    /\ \E d \in {"ql", "mysql"}, v \in {WithCompany, WithItems},
          n \in 0..MaxPrior, backend \in Backends, faults \in FaultSets :
         LET ctx == [Prepared(Engine(d, v),
                              IF n = 0 THEN << >> ELSE <<"UPDATE">>, n)
                     EXCEPT !.RowsAffected = MaxPrior]
         IN  Returns("SaveBeforeAssociation", ctx, backend, faults,
                     RunFn(Machine(book, ctx, backend, faults),
                           "SaveBeforeAssociation"))

\* QLAfterCreate called on the engine of a record just created; it is not
\* dispatched through the book.
DoQLAfterCreate ==
    /\ pc = "idle"
    /\ \E v \in {Plain, Saved}, backend \in Backends, faults \in FaultSets :
         LET ctx == [Prepared(Engine("ql", v), <<"INSERT">>, 1)
                     EXCEPT !.RowsAffected = MaxPrior]
             m == [Machine(book, ctx, backend, faults)
                   EXCEPT !.cur = "QLAfterCreate"]
         IN  Returns("QLAfterCreate", ctx, backend, faults, QLAfterCreate(m))

\* The call is over: its context is discarded.
DoReturn ==
    /\ pc = "done"
    /\ pc' = "idle"
    /\ op' = "none"
    /\ failAt' = {}
    /\ db' = CHOOSE b \in Backends : b.affected = 0
    /\ e0' = NoEngine
    /\ e' = NoEngine
    /\ calls' = << >>
    /\ steps' = << >>
    /\ err' = Nil
    /\ UNCHANGED <<book, sm, req, sets>>

Next ==
    \/ DoRegister
    \/ DoUpdate
    \/ DoDelete
    \/ DoCreate
    \/ DoQuery
    \/ DoQueryExec
    \/ DoUpdateExec
    \/ DoCreateExec
    \/ DoAfterAssociation
    \/ DoSaveBeforeAssociation
    \/ DoQLAfterCreate
    \/ DofixWhere
    \/ Docreate
    \/ DoDeleteSQL
    \/ DoReturn

Spec == Init /\ [][Next]_vars

----------------------------------------------------------------------------
(* The preloader called on owners that a primary query has loaded *)

\* An owner record: its key, the key of its company, and what its Items
\* field holds before the preload.
Owner(id, held) ==
    [New("Owner") EXCEPT
       !.id = id, !.fk = id,
       !.fields[1].elems = held,
       !.fields[1].isNil = (held = << >>)]

\* An item some earlier load has left in the field.
HeldItem(id) == [New("Item") EXCEPT !.id = 9, !.fk = id]

\* The owners a preload is called on: owner i has key i; the first one may
\* hold an item already, the last one may have a blank key.
Owners(k, held, blank) ==
    [i \in 1..k |->
       Owner(IF blank /\ i = k THEN 0 ELSE i,
             IF held /\ i = 1 /\ ~(blank /\ k = 1) THEN <<HeldItem(1)>>
             ELSE << >>)]

OwnerValues ==
    {[Slice(Owners(k, held, blank)) EXCEPT !.type = "Owner"] :
        k \in 0..MaxOwners, held \in BOOLEAN, blank \in BOOLEAN}
    \cup {Owner(1, << >>), Owner(1, <<HeldItem(1)>>), Owner(0, << >>)}
    \* two owners of the same key
    \cup {[Slice(<<Owner(1, << >>), Owner(1, << >>)>>)
           EXCEPT !.type = "Owner"]}

\* The related tables of a backend with n related rows: row i of Item and
\* of Profile belongs to owner ks[i], part i to item i, tag i is joined to
\* owner ks[i]; the only company is company 1.
PreloadBackend(ks) ==
    LET n == Len(ks)
        tables == [t \in {"Owner", "Item", "Profile", "Part", "Company", "Tag"} |->
                     CASE t \in {"Item", "Profile"} ->
                            [i \in 1..n |-> [id |-> 10 + i, fk |-> ks[i]]]
                       [] t = "Part" ->
                            [i \in 1..n |-> [id |-> 30 + i, fk |-> 10 + i]]
                       [] t = "Tag" ->
                            [i \in 1..n |-> [id |-> 20 + i, fk |-> 0]]
                       [] t = "Company" -> <<[id |-> 1, fk |-> 0]>>
                       [] OTHER -> << >>]
    IN  [affected |-> 0, lastId |-> 7, now |-> 99, rows |-> << >>,
         tables |-> tables,
         joins |-> [j \in {"Tags"} |->
                      [i \in 1..n |-> [src |-> ks[i], dst |-> 20 + i]]]]

\* The same backend with its first tag joined to every owner.
SharedTags(b) ==
    [b EXCEPT !.joins["Tags"] =
       [o \in 1..MaxOwners |-> [src |-> o, dst |-> 21]] \o Tail(@)]

\* The related rows all belong to owner 1, or to the owners in turn; the
\* first tag may be shared by all owners.
PreloadBackends ==
    {PreloadBackend([i \in 1..n |-> IF spread THEN ((i - 1) % MaxOwners) + 1
                                             ELSE 1]) :
        n \in 0..MaxRelated, spread \in BOOLEAN}
    \cup {SharedTags(PreloadBackend([i \in 1..n |-> 1])) :
             n \in 1..MaxRelated}

PreloadFaults == {{}} \cup {{n} : n \in 1..MaxCalls}

\* A caller-supplied condition of a preload path: the related row of key k.
KeyCond(k) == Cond("id = ?", "id", <<k>>)

\* The preload paths of a query.
PreloadSpecs ==
    {<<[path |-> <<"Items">>, conds |-> << >>]>>,
     <<[path |-> <<"Items">>, conds |-> <<KeyCond(11)>>]>>,
     <<[path |-> <<"Items", "Parts">>, conds |-> <<KeyCond(31)>>]>>,
     <<[path |-> <<"Items", "Parts">>, conds |-> <<AnyCond>>]>>,
     <<[path |-> <<"Items">>, conds |-> << >>],
       [path |-> <<"Items", "Parts">>, conds |-> << >>]>>,
     <<[path |-> <<"Items", "Parts">>, conds |-> << >>],
       [path |-> <<"Items", "Parts">>, conds |-> <<AnyCond>>]>>,
     <<[path |-> <<"Tags">>, conds |-> << >>],
       [path |-> <<"Tags">>, conds |-> << >>]>>,
     <<[path |-> <<"Profile">>, conds |-> << >>],
       [path |-> <<"Tags">>, conds |-> << >>]>>,
     <<[path |-> <<"Company">>, conds |-> << >>]>>,
     <<[path |-> <<"Items", "Nope">>, conds |-> << >>]>>,
     <<[path |-> <<"Nope">>, conds |-> << >>],
       [path |-> <<"Items">>, conds |-> << >>]>>,
     <<[path |-> <<"Notes">>, conds |-> << >>],
       [path |-> <<"Items">>, conds |-> << >>]>>}

\* One of the four relationship preloaders called on the owners.
Preloader(name, f) ==
    /\ pc = "idle"
    /\ \E d \in {"mysql"}, v \in OwnerValues, backend \in PreloadBackends,
          faults \in PreloadFaults, conds \in {<< >>, <<AnyCond>>} :
         LET ctx == Engine(d, v)
             m == [Machine(book, ctx, backend, faults) EXCEPT !.cur = name]
         IN  Returns(name, ctx, backend, faults, PreloadField(m, f, conds))

DoPreloadHasMany == Preloader("PreloadHasMany", 1)

DoPreloadHasOne == Preloader("PreloadHasOne", 2)

DoPreloadBelongsTo == Preloader("PreloadBelongsTo", 3)

DoPreloadManyToMany == Preloader("PreloadManyToMany", 4)

\* Preload called on the owners with the preload paths of the query.
DoPreload ==
    /\ pc = "idle"
    /\ \E d \in {"mysql"}, v \in OwnerValues, backend \in PreloadBackends,
          faults \in PreloadFaults, paths \in PreloadSpecs :
         LET ctx == [Engine(d, v) EXCEPT !.preload = paths]
             m == [Machine(book, ctx, backend, faults) EXCEPT !.cur = "Preload"]
         IN  Returns("Preload", ctx, backend, faults, Preload(m))

NextPreload ==
    \/ DoPreloadHasMany
    \/ DoPreloadHasOne
    \/ DoPreloadBelongsTo
    \/ DoPreloadManyToMany
    \/ DoPreload
    \/ DoReturn

SpecPreload == Init /\ [][NextPreload]_vars

----------------------------------------------------------------------------
(* A book the caller fills: the query pipeline with steps missing *)

\* NewBook: nothing is registered.
NewBook == [k \in {} |-> << >>]

InitBook ==
    /\ pc = "idle"
    /\ op = "none"
    /\ book = NewBook
    /\ failAt = {}
    /\ db = CHOOSE b \in Backends : b.affected = 0
    /\ e0 = NoEngine
    /\ e = NoEngine
    /\ calls = << >>
    /\ steps = << >>
    /\ err = Nil
    /\ InitStructs

\* The caller registers the built-in function of a step of the query
\* pipeline, or a hook of their own behind the query.
DoInstall ==
    /\ pc = "idle"
    /\ \E r \in {d \in Defaults : d[1] = "Query" /\ d[2] # "Query"}
               \cup {<<"Query", "HookAfterFindQuery",
                       "user HookAfterFindQuery">>} :
         /\ <<r[1], r[2]>> \notin DOMAIN book
         /\ book' = Register(book, <<r[1], r[2]>>, r[3])
    /\ UNCHANGED <<pc, op, failAt, db, e0, e, calls, steps, err, sm, req, sets>>

NextBook ==
    \/ DoInstall
    \/ DoQuery
    \/ DoReturn

SpecBook == InitBook /\ [][NextBook]_vars

\* Goroutines asking for record metadata, no call on an engine.
SpecStructs == Init /\ [][NextStructs /\ UNCHANGED callVars]_vars

----------------------------------------------------------------------------
(* Reading the logs *)

\* The functions of the book that were called, in order.
Called(log) ==
    LET cs == SelectSeq(log, LAMBDA x : x.ev = "call")
    IN  [i \in 1..Len(cs) |-> cs[i].fn]

Ran(log, fn) == \E i \in 1..Len(log) : log[i].ev = "call" /\ log[i].fn = fn

AllOk(cs) == \A i \in 1..Len(cs) : cs[i].ok

\* The external call at position i of the log was made by function fn on
\* the caller's own engine.
Made(cs, i, fn, call) ==
    cs[i].call = call /\ cs[i].by = fn /\ cs[i].lvl = 0

----------------------------------------------------------------------------
(* Properties *)

Done(name) == pc = "done" /\ op = name

Drivers == {"Create", "Query", "Update", "Delete"}

\* C1: an Update or a Delete called on a context without any WHERE
\* condition returns a usage error, sends nothing to the backend (no Begin,
\* Exec or Query) and runs no step behind the before-step: the driver and
\* its before-step are the only functions of the book that are called.
C1_NoConditionFailsClosed ==
    (pc = "done" /\ op \in {"Update", "Delete"} /\ ~HasConditions(e0)) =>
        /\ err \in UsageErrors
        /\ err = (IF op = "Update" THEN ErrMissingWhereUpdate
                                   ELSE ErrMissingWhereDelete)
        /\ BackendLog(calls) = << >>
        /\ calls = << >>
        /\ Called(steps) = <<op, "Before" \o op>>
        /\ e = e0

C1_Witness ==
    /\ Done("Update")
    /\ ~HasConditions(e0)
    /\ e0.Value.fields # << >>
    /\ err = ErrMissingWhereUpdate
    /\ Called(steps) = <<"Update", "BeforeUpdate">>

\* C2: when the statement of an Update or of a Delete is executed and the
\* backend reports that it matched no row, the affected-row count of the
\* context is 0, the error is never the record-not-found error, and the
\* call succeeds unless some other call (the commit, a hook, a cascade)
\* failed.
C2_ZeroRowsIsSuccess ==
    (pc = "done" /\ op \in {"Update", "UpdateExec", "Delete"}
                 /\ db.affected = 0) =>
        \A i \in 1..(Len(calls) - 1) :
            (/\ calls[i].call = "Exec" /\ calls[i].ok
             /\ calls[i].lvl = 0 /\ calls[i].by \in {"UpdateExec", "Delete"}
             /\ calls[i + 1].call = "RowsAffected" /\ calls[i + 1].ok) =>
                /\ e.RowsAffected = 0
                /\ err # ErrRecordNotFound
                /\ (AllOk(calls) => err = Nil)

C2_Witness ==
    /\ Done("Update")
    /\ db.affected = 0
    /\ e0.RowsAffected = 1
    /\ e.RowsAffected = 0
    /\ err = Nil
    /\ \E i \in 1..Len(calls) :
          calls[i].call = "Exec" /\ calls[i].by = "UpdateExec"
                                 /\ calls[i].lvl = 0
    /\ Ran(steps, "AfterUpdate")

\* C3: QueryExec whose query returns no row reports record-not-found for a
\* single-record destination; for a sequence destination it succeeds, the
\* destination is the empty sequence and the affected-row count is 0.  When
\* the query itself fails the error is the backend's.
C3_EmptyResult ==
    (Done("QueryExec") /\ Destination(e0).kind \in {"struct", "slice"}) =>
        /\ calls # << >> /\ calls[1].call = "Query"
        /\ ~calls[1].ok => err = ErrOf("Query")
        /\ (calls[1].ok /\ ResultRows(db, e0) = << >>) =>
              /\ e.RowsAffected = 0
              /\ Destination(e0).kind = "struct" =>
                    /\ err = ErrRecordNotFound
                    /\ Destination(e) = Destination(e0)
              /\ Destination(e0).kind = "slice" =>
                    /\ err = Nil
                    /\ Destination(e).items = << >>

C3_Witness ==
    /\ Done("QueryExec")
    /\ Destination(e0).kind = "slice"
    /\ Destination(e0).items # << >>
    /\ e0.RowsAffected = 1
    /\ calls[1].ok
    /\ ResultRows(db, e0) = << >>
    /\ Destination(e).items = << >>
    /\ e.RowsAffected = 0
    /\ err = Nil

\* C4: QueryExec on a destination that is neither a record nor a sequence
\* returns the unsupported-destination error without sending a query, and
\* leaves the affected-row count and the SQL text with its parameters as
\* they were.
C4_UnsupportedDestination ==
    (Done("QueryExec") /\ Destination(e0).kind \notin {"struct", "slice"}) =>
        /\ err = ErrUnsupportedDestination
        /\ calls = << >>
        /\ e.RowsAffected = e0.RowsAffected
        /\ e.SQL = e0.SQL
        /\ e.SQLVars = e0.SQLVars
        /\ e = e0

C4_Witness ==
    /\ Done("QueryExec")
    /\ Destination(e0).kind = "other"
    /\ e0.RowsAffected = 1
    /\ e0.scope.QueryOption
    /\ e0.SQL = <<"SELECT">>
    /\ err = ErrUnsupportedDestination
    /\ e.RowsAffected = 1
    /\ e.SQL = <<"SELECT">>

\* C5: in the create, query, update and delete drivers a step that returns
\* an error is the last step of the pipeline and its error is the driver's
\* result; a driver that returns success has seen its last step succeed.
\* A failed call on the connection made by the delete driver itself ends
\* the pipeline in the same way.
C5_FailFast ==
    pc = "done" =>
        /\ \A i \in 1..Len(steps) :
              (steps[i].ev = "ret" /\ steps[i].by \in Drivers
                                   /\ steps[i].err # Nil) =>
                 /\ i < Len(steps)
                 /\ steps[i + 1].ev = "ret"
                 /\ steps[i + 1].fn = steps[i].by
                 /\ steps[i + 1].lvl = steps[i].lvl
                 /\ steps[i + 1].err = steps[i].err
        /\ \A i \in 2..Len(steps) :
              (steps[i].ev = "ret" /\ steps[i].fn \in Drivers
                                   /\ steps[i].err = Nil) =>
                 /\ steps[i - 1].ev = "ret"
                 /\ steps[i - 1].by = steps[i].fn
                 /\ steps[i - 1].err = Nil
        /\ \A j \in 1..Len(calls) :
              (calls[j].by = "Delete" /\ ~calls[j].ok) =>
                 /\ err # Nil
                 /\ ~Ran(steps, "AfterDelete")

C5_Witness ==
    /\ Done("Update")
    /\ err # Nil
    /\ \E i \in 1..(Len(steps) - 1) :
          /\ steps[i].ev = "ret" /\ steps[i].fn = "UpdateSQL"
          /\ steps[i].by = "Update" /\ steps[i].err = err
          /\ steps[i + 1].ev = "ret" /\ steps[i + 1].fn = "Update"
    /\ Ran(steps, "BeforeUpdate")
    /\ ~Ran(steps, "UpdateExec")
    /\ ~Ran(steps, "AfterUpdate")

\* The calls function fn made itself, in order.
CallsBy(fn) ==
    LET cs == SelectSeq(calls, LAMBDA c : c.by = fn)
    IN  [i \in 1..Len(cs) |-> cs[i].call]

\* The commits and rollbacks that follow the Begin at position i before
\* another transaction is begun.
Finishers(i) ==
    {j \in (i + 1)..Len(calls) :
        /\ calls[j].call \in {"Commit", "Rollback"}
        /\ \A k \in (i + 1)..j : calls[k].call # "Begin"}

\* C6: every transaction a write step begins is finished by exactly one
\* Commit or Rollback before the step returns: a Commit when every call
\* made in the transaction succeeded, a Rollback when one of them failed.
C6_TransactionsFinish ==
    pc = "done" =>
        \A i \in 1..Len(calls) :
            (calls[i].call = "Begin" /\ calls[i].ok) =>
                /\ Cardinality(Finishers(i)) = 1
                /\ \A j \in Finishers(i) :
                      /\ calls[j].by = calls[i].by
                      /\ calls[j].call = "Commit" <=>
                            \A k \in (i + 1)..(j - 1) : calls[k].ok

\* C7: in a write step that opens a transaction, when the statement fails
\* and the Rollback that follows fails too, the step returns the rollback
\* error; when the Rollback succeeds it returns the statement's error.
C7_RollbackErrorWins ==
    (pc = "done" /\ op \in {"UpdateExec", "CreateExec", "Delete",
                            "AfterAssociation"}) =>
        \A i \in 1..(Len(calls) - 1) :
            (/\ calls[i].call = "Exec" /\ ~calls[i].ok /\ calls[i].by = op
             /\ calls[i + 1].call = "Rollback" /\ calls[i + 1].by = op) =>
                err = (IF calls[i + 1].ok THEN ErrOf("Exec")
                                          ELSE ErrOf("Rollback"))

C9_PrimaryKeyWriteBack ==
    (/\ Done("CreateExec") /\ err = Nil
     /\ e0.Value.hasPK
     /\ LastInsertIDReturningSuffix(e0.dialect) = << >>) =>
        e.Value.id = (IF IsBlank(e0.Value) THEN db.lastId
                                           ELSE e0.Value.id)

\* The items of the backend that belong to owner o, as a query scans them.
ItemsOf(o) ==
    LET mine == SelectSeq(db.tables["Item"], LAMBDA row : row.fk = o.id)
    IN  [i \in 1..Len(mine) |-> Scan(New("Item"), mine[i])]

\* C10: PreloadHasMany on a sequence of owners, one of which at least has a
\* key, sends exactly one query, and afterwards the relationship field of
\* every owner holds exactly the related rows whose foreign key is the
\* owner's key, whatever it held before: as many elements as the owner has
\* related rows, and an empty sequence, not an unset field, when it has
\* none.
C10_HasManyGroups ==
    (/\ Done("PreloadHasMany") /\ err = Nil
     /\ e0.Value.kind = "slice"
     /\ ColumnAsArray("id", e0.Value) # << >>) =>
        /\ Cardinality({i \in 1..Len(calls) : calls[i].call = "Query"}) = 1
        /\ Len(e.Value.items) = Len(e0.Value.items)
        /\ \A j \in 1..Len(e.Value.items) :
              /\ e.Value.items[j].fields[1].elems = ItemsOf(e0.Value.items[j])
              /\ ~e.Value.items[j].fields[1].isNil

\* The keys of the tags the join table links to owner o, in the order of
\* the join table.
TagsOf(o) ==
    LET js == SelectSeq(db.joins["Tags"], LAMBDA j :
                 /\ KeyString(j.src) = KeyString(o.id)
                 /\ \E i \in 1..Len(db.tables["Tag"]) :
                       db.tables["Tag"][i].id = j.dst)
    IN  [k \in 1..Len(js) |-> js[k].dst]

TagKeys(o) == [k \in 1..Len(o.fields[4].elems) |-> o.fields[4].elems[k].id]

\* C11: after a successful PreloadManyToMany every owner whose field was
\* empty holds exactly the related rows that the join table links to the
\* owner's key, each once, in the order of the join table; this holds for
\* a single owner, for a sequence of owners, and for owners that share a
\* related row or a key.
C11_ManyToManyGroups ==
    (Done("PreloadManyToMany") /\ err = Nil) =>
        IF e0.Value.kind = "slice"
        THEN /\ Len(e.Value.items) = Len(e0.Value.items)
             /\ \A j \in 1..Len(e.Value.items) :
                   TagKeys(e0.Value.items[j]) = << >> =>
                      TagKeys(e.Value.items[j]) = TagsOf(e0.Value.items[j])
        ELSE TagKeys(e0.Value) = << >> => TagKeys(e.Value) = TagsOf(e0.Value)

\* The related records segment A of a path left on the owners.
LoadedItems == Items(Level(e.Value, <<"Items">>))

Segments == {e0.preload[p].path : p \in 1..Len(e0.preload)}

\* C13: a Preload none of whose calls fails returns an error when a
\* segment of a path names no relationship of the type at its level, and
\* the error names the segment and that type; it returns an error when the
\* relationship a segment names has an unsupported kind; in both cases no
\* later path is loaded.
C13_BadSegmentFails ==
    (Done("Preload") /\ AllOk(calls)) =>
        /\ <<"Items", "Nope">> \in Segments =>
              err = ErrCantPreload("Nope", "Item")
        /\ <<"Nope">> \in Segments =>
              /\ err = ErrCantPreload("Nope", "Owner")
              /\ \A i \in 1..Len(calls) : calls[i].call # "Query"
        /\ <<"Notes">> \in Segments =>
              /\ err = ErrUnsupportedRelation("embedded")
              /\ \A i \in 1..Len(calls) : calls[i].call # "Query"

\* Position of the first token tok of a statement at or after position
\* from, 0 when there is none.
TokenAt(sql, tok, from) ==
    LET at == {i \in from..Len(sql) : sql[i] = tok}
    IN  IF at = {} THEN 0 ELSE CHOOSE i \in at : \A j \in at : i <= j

\* The column list and the placeholder list of an INSERT statement.
InsertColumns(sql) == SubSeq(sql, 3, TokenAt(sql, ")", 1) - 1)

InsertMarks(sql) ==
    SubSeq(sql, TokenAt(sql, "VALUES", 1) + 2,
           TokenAt(sql, ")", TokenAt(sql, "VALUES", 1)) - 1)

\* C14: when create returns success the statement either lists as many
\* columns as placeholders, the parameter list has grown by that number
\* and the i-th new parameter is the value of the i-th listed column under
\* the i-th placeholder, or it is the DEFAULT VALUES form, which is the
\* case exactly when no parameter was added.
C14_InsertColumnsMatchParameters ==
    (Done("create") /\ err = Nil) =>
        LET old == Len(e0.SQLVars)
            cols == InsertColumns(e.SQL)
            marks == InsertMarks(e.SQL)
        IN  /\ SubSeq(e.SQLVars, 1, old) = e0.SQLVars
            /\ IF TokenAt(e.SQL, "DEFAULT VALUES", 1) # 0
               THEN /\ e.SQLVars = e0.SQLVars
                    /\ TokenAt(e.SQL, "VALUES", 1) = 0
               ELSE /\ e.SQL[1] = "INSERT" /\ e.SQL[2] = "("
                    /\ cols # << >>
                    /\ Len(cols) = Len(marks)
                    /\ Len(e.SQLVars) = old + Len(cols)
                    /\ \A i \in 1..Len(cols) :
                          /\ cols[i] \in {"id", "fk"}
                          /\ e.SQLVars[old + i].v = e0.Value[cols[i]]
                          /\ marks[i] = Placeholder(old + i)

\* Two columns are listed behind a parameter the engine held already.
C14_Witness ==
    /\ Done("create") /\ err = Nil
    /\ Len(e0.SQLVars) = 1
    /\ InsertColumns(e.SQL) = <<"id", "fk">>
    /\ InsertMarks(e.SQL) = <<"$2", "$3">>
    /\ Len(e.SQLVars) = 3

\* The statement without the transaction wrapping of the QL dialect.
Unwrapped(sql) ==
    IF sql # << >> /\ sql[1] = "BEGIN TRANSACTION;"
    THEN SubSeq(sql, 2, Len(sql) - 1) ELSE sql

\* The parameters of value v in a parameter list.
ParametersOf(vs, v) == {i \in 1..Len(vs) : vs[i].v = v}

\* C15: when DeleteSQL returns success on a record whose table has the
\* DeletedAt column the statement is an UPDATE that sets deleted_at to a
\* new parameter holding the current time, the only parameter added
\* besides the one of the primary key condition, and holds no DELETE;
\* otherwise it is a DELETE, no UPDATE, and only the parameter of the
\* primary key condition is added; in both forms the WHERE condition
\* follows when the record has a key or the search a condition, and the
\* extra clause ends the statement when the delete option is set.
C15_SoftDelete ==
    (Done("DeleteSQL") /\ err = Nil) =>
        LET sql == Unwrapped(e.SQL)
            old == Len(e0.SQLVars)
            byPK == IF e0.Value.id # 0 THEN 1 ELSE 0
        IN  /\ SubSeq(e.SQLVars, 1, old) = e0.SQLVars
            /\ IF e0.Value.hasDeletedAt
               THEN /\ Len(sql) >= 4
                    /\ SubSeq(sql, 1, 3) = <<"UPDATE", "SET", "deleted_at=">>
                    /\ TokenAt(sql, "DELETE FROM", 1) = 0
                    /\ Len(e.SQLVars) = old + byPK + 1
                    /\ \E i \in (old + 1)..Len(e.SQLVars) :
                          /\ e.SQLVars[i].v = db.now
                          /\ sql[4] = Placeholder(i)
               ELSE /\ sql[1] = "DELETE FROM"
                    /\ TokenAt(sql, "UPDATE", 1) = 0
                    /\ Len(e.SQLVars) = old + byPK
            /\ (TokenAt(sql, "WHERE", 1) # 0) <=> HasConditions(e0)
            /\ byPK = 1 => TokenAt(sql, "id =", 1) # 0
            /\ \A i \in 1..Len(e0.where) :
                  TokenAt(sql, e0.where[i].query, 1)
                     > TokenAt(sql, "WHERE", 1)
            /\ (sql[Len(sql)] = "OPTION") <=> e0.scope.DeleteOption
            /\ IsQL(e0.dialect) <=> (e.SQL # sql)

\* A soft delete by primary key and condition with the extra clause, on
\* an engine that held a parameter already.
C15_Witness ==
    /\ Done("DeleteSQL") /\ err = Nil
    /\ e0.Value.hasDeletedAt /\ e0.Value.id # 0 /\ e0.where # << >>
    /\ e0.scope.DeleteOption /\ Len(e0.SQLVars) = 1
    /\ Len(e.SQLVars) = 3
    /\ e.SQL[1] = "UPDATE"

\* The positions of the log at which function fn is entered, and is
\* entered or left, on an engine of level lvl.
Entries(fn, lvl) ==
    {i \in 1..Len(steps) :
        steps[i].fn = fn /\ steps[i].lvl = lvl /\ steps[i].ev = "call"}

Events(fn, lvl) ==
    {i \in 1..Len(steps) : steps[i].fn = fn /\ steps[i].lvl = lvl}

\* Every run of function a on the caller's engine is over before function
\* b is entered on it.
ReturnsBefore(a, b) ==
    \A i \in Events(a, 0), j \in Entries(b, 0) : i < j

\* Function a is entered on the caller's engine, and before every entry
\* of function b on it.
StartsBefore(a, b) ==
    /\ Entries(a, 0) # {}
    /\ \A j \in Entries(b, 0) : \E i \in Entries(a, 0) : i < j

BeforeHooks == {"user HookBeforeSave", "user HookBeforeUpdate"}

AfterHooks == {"user HookAfterUpdate", "user HookAfterSave"}

\* The positions at which function fn, called by function by, is entered
\* or left on the caller's engine.
EventsBy(fn, by) == {i \in Events(fn, 0) : steps[i].by = by}

\* C17: an Update that returns success has run, on the caller's engine and
\* each over before the next is entered: the timestamp step, the merge of
\* the update attributes, the cascade of the belongs_to associations and
\* the user's before-save and before-update hooks, all inside
\* BeforeUpdate, then UpdateSQL, then UpdateExec, which begins a
\* transaction, executes, and commits, then inside AfterUpdate the user's
\* after-update and after-save hooks and the cascade of the other
\* associations.  On every run, UpdateExec is entered only for an engine
\* that has a condition and after BeforeUpdate returned success.
C17_UpdateOrder ==
    /\ (Done("Update") /\ err = Nil) =>
          /\ \A fn \in {"BeforeUpdate", "UpdateTimestamp",
                         "AssignUpdatingAttrs", "SaveBeforeAssociation",
                         "UpdateSQL", "UpdateExec", "AfterUpdate",
                         "AfterAssociation"} :
                Entries(fn, 0) # {}
          /\ StartsBefore("BeforeUpdate", "UpdateTimestamp")
          /\ ReturnsBefore("UpdateTimestamp", "AssignUpdatingAttrs")
          /\ EventsBy("AssignUpdatingAttrs", "BeforeUpdate") # {}
          /\ \A i \in EventsBy("AssignUpdatingAttrs", "BeforeUpdate"),
                j \in Entries("SaveBeforeAssociation", 0) : i < j
          /\ \A h \in BeforeHooks :
                /\ ReturnsBefore("SaveBeforeAssociation", h)
                /\ ReturnsBefore(h, "UpdateSQL")
                /\ \A i \in Events(h, 0), j \in Events("BeforeUpdate", 0) :
                      steps[j].ev = "ret" => i < j
          /\ ReturnsBefore("user HookBeforeSave", "user HookBeforeUpdate")
          /\ ReturnsBefore("BeforeUpdate", "UpdateSQL")
          /\ ReturnsBefore("UpdateSQL", "UpdateExec")
          /\ [i \in 1..4 |->
                 SelectSeq(calls, LAMBDA c :
                    c.by = "UpdateExec" /\ c.lvl = 0)[i].call]
                = <<"Begin", "Exec", "RowsAffected", "Commit">>
          /\ ReturnsBefore("UpdateExec", "AfterUpdate")
          /\ \A h \in AfterHooks :
                /\ StartsBefore("AfterUpdate", h)
                /\ ReturnsBefore(h, "AfterAssociation")
          /\ ReturnsBefore("user HookAfterUpdate", "user HookAfterSave")
          /\ StartsBefore("AfterUpdate", "AfterAssociation")
    /\ Done("Update") =>
          \A j \in Entries("UpdateExec", 0) :
             /\ HasConditions(e0)
             /\ \E i \in 1..(j - 1) :
                   /\ steps[i].fn = "BeforeUpdate" /\ steps[i].lvl = 0
                   /\ steps[i].ev = "ret" /\ steps[i].err = Nil

\* A successful Update with an after-update hook of the user and an
\* association to save.
C17_Witness ==
    /\ Done("Update") /\ err = Nil
    /\ Entries("user HookAfterUpdate", 0) # {}
    /\ e0.Value = WithItems
    /\ Entries("AfterAssociation", 0) # {}

\* The hook points of an update the user can register at.
UpdatePoints ==
    {<<"Save", "HookBeforeSave">>, <<"Update", "HookBeforeUpdate">>,
     <<"Update", "HookAfterUpdate">>, <<"Save", "HookAfterSave">>}

\* UpdatedAt was stamped on the caller's engine.
Stamped ==
    \E i \in 1..Len(calls) :
       calls[i].call = "SetColumn UpdatedAt" /\ calls[i].lvl = 0

\* C18: an Update of an engine that carries UpdateColumn enters none of
\* the user's before-save, before-update, after-update and after-save
\* hooks and does not stamp UpdatedAt on it, and when it returns success
\* the engine had a condition and the merge of the attributes, both
\* cascades, UpdateSQL and UpdateExec have run; an Update without
\* UpdateColumn that returns success has stamped UpdatedAt and entered
\* every hook registered at one of these four points.
C18_ColumnUpdateSkipsHooks ==
    Done("Update") =>
        IF e0.scope.UpdateColumn
        THEN /\ \A h \in BeforeHooks \cup AfterHooks : Entries(h, 0) = {}
             /\ ~Stamped
             /\ err = Nil =>
                   /\ HasConditions(e0)
                   /\ \A fn \in {"BeforeUpdate", "AssignUpdatingAttrs",
                                  "SaveBeforeAssociation", "UpdateSQL",
                                  "UpdateExec", "AfterUpdate",
                                  "AfterAssociation"} :
                         Entries(fn, 0) # {}
        ELSE err = Nil =>
                /\ Stamped
                /\ \A key \in UpdatePoints \cap DOMAIN book :
                      \A k \in 1..Len(book[key]) :
                         Entries(book[key][k], 0) # {}

\* A successful column update although a before-update hook is registered.
C18_Witness ==
    /\ Done("Update") /\ err = Nil
    /\ e0.scope.UpdateColumn
    /\ <<"Update", "HookBeforeUpdate">> \in DOMAIN book
    /\ Entries("user HookBeforeUpdate", 0) = {}
    /\ e0.Value = WithItems
    /\ Entries("AfterAssociation", 0) # {}

\* The step of the query pipeline registered under name is missing.
Missing(name) == <<"Query", name>> \notin DOMAIN book

\* The last return of function fn on the caller's engine was a success.
Succeeded(fn) ==
    /\ Entries(fn, 0) # {}
    /\ \A i \in Events(fn, 0) : steps[i].ev = "ret" => steps[i].err = Nil

\* C19: Query returns the "not implemented" error, before anything is
\* sent to the backend, when no SQL-build step is registered, and returns
\* it in place of executing when the SQL was built and no execute step is
\* registered; when both ran with success and no after-query step is
\* registered, Query returns success.
C19_MissingSteps ==
    Done("Query") =>
        /\ Missing("HookQuerySQL") =>
              /\ err = ErrNotImplemented
              /\ calls = << >>
              /\ Called(steps) = <<"Query">>
        /\ (Missing("HookQueryExec") /\ Succeeded("QuerySQL")) =>
              /\ err = ErrNotImplemented
              /\ Called(steps) = <<"Query", "QuerySQL">>
        /\ (Missing("HookAfterQuery") /\ Succeeded("QuerySQL")
                                      /\ Succeeded("QueryExec")) =>
              /\ err = Nil
              /\ Called(steps) = <<"Query", "QuerySQL", "QueryExec">>

\* The query ran to the end on a book without an after-query step.
C19_Witness ==
    /\ Done("Query") /\ err = Nil
    /\ DOMAIN book = {<<"Query", "HookQuerySQL">>, <<"Query", "HookQueryExec">>}
    /\ e.RowsAffected = MaxRows
    /\ Called(steps) = <<"Query", "QuerySQL", "QueryExec">>

\* C20: whatever the interleaving of the goroutines that ask for the
\* metadata of a record type, the map is stored into at most once for the
\* type, and two goroutines that hold the metadata of the same type hold
\* the same ModelStruct.
C20_BuiltOnce ==
    /\ \A t \in ModelTypes : sets[t] <= 1
    /\ \A p, q \in Requesters :
          (req[p].at = "done" /\ req[q].at = "done"
                              /\ req[p].key = req[q].key) =>
             req[p].got = req[q].got

\* The sub-operations a cascade ran on clones of the caller's context.
CascadeOps == {"SaveBeforeAssociation", "AfterAssociation", "QLAfterCreate"}

\* C21: a cascaded sub-operation runs on a clone: every statement the
\* cascade executes is on an engine below the caller's (a clone, or a
\* clone of a clone), and when the cascade returns the caller's SQL text, parameter
\* list and row count are what they were before it started.
C21_CascadeLeavesCaller ==
    (pc = "done" /\ op \in CascadeOps) =>
       /\ e.SQL = e0.SQL
       /\ e.SQLVars = e0.SQLVars
       /\ e.RowsAffected = e0.RowsAffected
       /\ \A i \in 1..Len(calls) :
             calls[i].call \in BackendCalls => calls[i].lvl > e0.level

\* AfterAssociation on a QL engine that holds a statement: the creation of
\* an associated record was executed on a clone and its QL fix-up on a
\* clone of that clone, and the backend reported a row count other than
\* the caller's.
C21_Witness ==
    /\ pc = "done" /\ op = "AfterAssociation" /\ err = Nil
    /\ e0.SQL # << >> /\ e0.SQLVars # << >>
    /\ db.affected # e0.RowsAffected
    /\ \E i, j \in 1..Len(calls) :
          /\ calls[i].call = "Exec" /\ calls[i].ok
          /\ calls[i].lvl = e0.level + 1
          /\ calls[j].call = "Exec" /\ calls[j].ok
          /\ calls[j].lvl = e0.level + 2

\* The key column a preloader collects from the owners.
OwnerKey ==
    [n \in {"PreloadHasOne", "PreloadHasMany", "PreloadBelongsTo",
            "PreloadManyToMany"} |->
       IF n = "PreloadBelongsTo" THEN "fk" ELSE "id"]

\* C22: for every relationship kind, when no owner of the current level
\* has a key, the preload of the segment issues no secondary query (no
\* call reaches the backend), changes no owner field and returns success.
C22_NoKeysNoQuery ==
    (pc = "done" /\ op \in DOMAIN OwnerKey /\ failAt = {}
                 /\ ColumnAsArray(OwnerKey[op], e0.Value) = << >>) =>
       /\ BackendLog(calls) = << >>
       /\ e.Value = e0.Value
       /\ err = Nil

\* The secondary queries a Preload sent for segments at depth k of its
\* paths: those run through the query group on a clone of the engine of
\* that depth, and those PreloadManyToMany sends itself.
SegmentQueries(k) ==
    Cardinality({i \in 1..Len(steps) :
                   /\ steps[i].ev = "call" /\ steps[i].fn = "Query"
                   /\ steps[i].lvl = e0.level + k})
    + Cardinality({i \in 1..Len(calls) :
                     /\ calls[i].call = "Query" /\ calls[i].by = "Preload"
                     /\ calls[i].lvl = e0.level + k + 1})

\* The distinct path prefixes of k segments in the preload specification.
Prefixes(k) ==
    {SubSeq(e0.preload[p].path, 1, k) :
        p \in {q \in 1..Len(e0.preload) : Len(e0.preload[q].path) >= k}}

\* C23: within one Preload call every distinct path prefix is resolved at
\* most once: no more secondary queries are sent for the segments at a
\* depth than there are distinct prefixes of that depth.  A path whose
\* first segment an earlier path has resolved still descends: when the
\* call succeeds and the owners hold loaded items with keys, the query of
\* its second segment is sent.
C23_PrefixOnce ==
    Done("Preload") =>
       /\ \A k \in 1..2 : SegmentQueries(k) <= Cardinality(Prefixes(k))
       /\ (/\ err = Nil
           /\ \E p, q \in 1..Len(e0.preload) :
                 /\ p < q
                 /\ e0.preload[p].path[1] = "Items"
                 /\ e0.preload[q].path = <<"Items", "Parts">>
           /\ ColumnAsArray("id", Level(e.Value, <<"Items">>)) # << >>)
          => SegmentQueries(2) >= 1

\* The path "Items" and then the path "Items.Parts": one query for Items,
\* one for Parts, and the items hold their parts.
C23_Witness ==
    /\ Done("Preload") /\ err = Nil
    /\ e0.preload = <<[path |-> <<"Items">>, conds |-> << >>],
                      [path |-> <<"Items", "Parts">>, conds |-> << >>]>>
    /\ SegmentQueries(1) = 1 /\ SegmentQueries(2) = 1
    /\ Items(Level(e.Value, <<"Items", "Parts">>)) # << >>

\* The keys of the records a path prefix holds after the preload, without
\* the item an earlier load had left.
LoadedKeys(prefix) ==
    {Items(Level(e.Value, prefix))[i].id :
        i \in 1..Len(Items(Level(e.Value, prefix)))} \ {9}

\* The keys of the rows of a table whose foreign key is one of keys and
\* which pass the conditions.
RowKeys(table, keys, conds) ==
    {db.tables[table][i].id :
        i \in {j \in 1..Len(db.tables[table]) :
                 /\ db.tables[table][j].fk \in keys
                 /\ \A c \in 1..Len(conds) :
                       Passes(db.tables[table][j], conds[c])}}

OwnerKeys == {ColumnAsArray("id", e0.Value)[i] :
                 i \in 1..Len(ColumnAsArray("id", e0.Value))}

\* C24: the conditions of a preload path reach the query of its last
\* segment and no other.  After a successful Preload of one path, the
\* records loaded for the last segment are the related rows that pass the
\* conditions, and the records loaded for a segment before the last are
\* all the related rows, whether they pass the conditions or not.
C24_ConditionsOnLastSegment ==
    (Done("Preload") /\ err = Nil /\ Len(e0.preload) = 1) =>
       /\ e0.preload[1].path = <<"Items">> =>
             LoadedKeys(<<"Items">>)
               = RowKeys("Item", OwnerKeys, e0.preload[1].conds)
       /\ e0.preload[1].path = <<"Items", "Parts">> =>
             /\ LoadedKeys(<<"Items">>) = RowKeys("Item", OwnerKeys, << >>)
             /\ LoadedKeys(<<"Items", "Parts">>)
                  = RowKeys("Part", {9} \cup LoadedKeys(<<"Items">>),
                            e0.preload[1].conds)

\* The path "Items.Parts" with a condition that only one of two parts
\* passes and no item passes: both items are loaded, and the one part.
C24_Witness ==
    /\ Done("Preload") /\ err = Nil
    /\ e0.preload = <<[path |-> <<"Items", "Parts">>,
                       conds |-> <<KeyCond(31)>>]>>
    /\ Cardinality(LoadedKeys(<<"Items">>)) = 2
    /\ LoadedKeys(<<"Items", "Parts">>) = {31}
    /\ Cardinality(RowKeys("Part", LoadedKeys(<<"Items">>), << >>)) = 2

\* The to-one preloaders: the relationship field they fill, the related
\* table, and the key columns they compare (owner side, related side).
ToOne ==
    [n \in {"PreloadHasOne", "PreloadBelongsTo"} |->
       IF n = "PreloadHasOne"
       THEN [f |-> 2, table |-> "Profile", own |-> "id", rel |-> "fk"]
       ELSE [f |-> 3, table |-> "Company", own |-> "fk", rel |-> "id"]]

\* The rows the secondary query of a to-one preload fetched, in result
\* order: the related rows whose key is one of the owners' keys.
Fetched(n) ==
    SelectSeq(db.tables[ToOne[n].table], LAMBDA row :
       \E k \in 1..Len(ColumnAsArray(ToOne[n].own, e0.Value)) :
          KeyString(row[ToOne[n].rel])
            = KeyString(ColumnAsArray(ToOne[n].own, e0.Value)[k]))

\* The fetched rows whose key equals the key of owner o as a string.
KeyEqual(n, o) ==
    SelectSeq(Fetched(n), LAMBDA row :
       KeyString(row[ToOne[n].rel]) = KeyString(o[ToOne[n].own]))

\* C25: after a successful to-one preload over a sequence of owners, an
\* owner with no key-equal fetched row keeps the value its field had, and
\* an owner with a key-equal fetched row holds such a row in its field:
\* for has_one the first one in result order.
C25_ToOneByKey ==
    (pc = "done" /\ op \in DOMAIN ToOne /\ err = Nil
                 /\ e0.Value.kind = "slice") =>
       /\ Len(e.Value.items) = Len(e0.Value.items)
       /\ \A j \in 1..Len(e0.Value.items) :
             LET o == e0.Value.items[j]
                 held == e.Value.items[j].fields[ToOne[op].f]
                 match == KeyEqual(op, o)
             IN  IF match = << >>
                 THEN held = o.fields[ToOne[op].f]
                 ELSE /\ Len(held.elems) = 1
                      /\ \E x \in 1..Len(match) :
                            /\ held.elems[1].id = match[x].id
                            /\ held.elems[1].fk = match[x].fk
                      /\ op = "PreloadHasOne" =>
                            held.elems[1].id = match[1].id

\* PreloadHasOne over two owners: the first has two key-equal rows and
\* holds the first of them, the second has none and keeps its field.
C25_Witness ==
    /\ pc = "done" /\ op = "PreloadHasOne" /\ err = Nil
    /\ e0.Value.kind = "slice" /\ Len(e0.Value.items) = 2
    /\ Len(KeyEqual(op, e0.Value.items[1])) = 2
    /\ KeyEqual(op, e0.Value.items[2]) = << >>
    /\ e0.Value.items[2].id # 0
    /\ e.Value.items[1].fields[2].elems[1].id
         = KeyEqual(op, e0.Value.items[1])[1].id
    /\ e.Value.items[2].fields[2] = e0.Value.items[2].fields[2]

\* C26: a to-one preload on a single record whose query fetched several
\* rows stores the first fetched row in the field and stops: the field is
\* set once and holds the first row.
C26_SingleOwnerFirstRow ==
    (pc = "done" /\ op \in DOMAIN ToOne /\ err = Nil
                 /\ e0.Value.kind = "struct"
                 /\ Len(Fetched(op)) > 1) =>
       /\ e.Value.fields[ToOne[op].f].elems[1].id = Fetched(op)[1].id
       /\ Cardinality({i \in 1..Len(calls) : calls[i].call = "Set"}) = 1

\* The positions of the last WHERE and of the last " id = " of the
\* statement fixWhere was called on, 0 when there is none.
LastWhere == LastIndex(e0.SQL, "WHERE")

LastID == LastIndex(e0.SQL, "id =")

\* C27: fixWhere leaves the SQL text and every parameter as they were and
\* returns no error when the statement has no WHERE, has no " id = ", or
\* its last " id = " comes before its last WHERE.
C27_FixWhereNoOp ==
    (pc = "done" /\ op = "fixWhere"
                 /\ (LastWhere = 0 \/ LastID = 0 \/ LastID < LastWhere)) =>
       /\ e.SQL = e0.SQL
       /\ e.SQLVars = e0.SQLVars
       /\ err = Nil

\* A statement whose only " id = " is in the SET list, before the WHERE,
\* with unsigned parameters.
C27_Witness ==
    /\ pc = "done" /\ op = "fixWhere" /\ err = Nil
    /\ LastWhere # 0 /\ LastID # 0 /\ LastID < LastWhere
    /\ Len(e0.SQLVars) >= 2
    /\ \A i \in 1..Len(e0.SQLVars) : e0.SQLVars[i].t = "uint64"
    /\ e = e0

\* The number of the parameter that follows the last " id = ", 0 when what
\* follows is not a numbered parameter.
Referenced ==
    IF LastID = 0 \/ LastID = Len(e0.SQL) THEN 0
    ELSE IF \E k \in 1..(MaxVars + 1) :
               e0.SQL[LastID + 1] = Placeholder(k)
    THEN CHOOSE k \in 1..(MaxVars + 1) : e0.SQL[LastID + 1] = Placeholder(k)
    ELSE 0

\* C28: when the last " id = " follows the last WHERE, fixWhere replaces
\* that occurrence and no other by " id()= ", makes the parameter whose
\* number N follows it (of one digit or more) signed when it was
\* unsigned, leaves every other parameter and the length of the list as
\* they were, and never indexes outside the text or the list.
C28_FixWhereRewrites ==
    (pc = "done" /\ op = "fixWhere"
                 /\ LastWhere # 0 /\ LastID > LastWhere) =>
       /\ err # ErrPanic
       /\ e.SQL = [e0.SQL EXCEPT ![LastID] = "id()="]
       /\ Len(e.SQLVars) = Len(e0.SQLVars)
       /\ \A i \in 1..Len(e0.SQLVars) :
             e.SQLVars[i] =
               IF i = Referenced /\ e0.SQLVars[i].t = "uint64"
               THEN [e0.SQLVars[i] EXCEPT !.t = "int64"]
               ELSE e0.SQLVars[i]

\* The normal fields of the record create was called on that
\* scope.ChangeableField accepts.
ChangeableFields ==
    SelectSeq(NormalFields(e0.Value), LAMBDA f : f.changeable)

\* Whether the INSERT lists the column.
Listed(name) ==
    \E i \in 1..Len(InsertColumns(e.SQL)) : InsertColumns(e.SQL)[i] = name

\* Whether the default-value marker list holds the column.
Marked(name) ==
    \E i \in 1..Len(e.scope.BlankColWithValue) :
       e.scope.BlankColWithValue[i] = name

\* C29, as stated: a normal changeable field has a column in the INSERT
\* exactly when it is not the primary key and its value is not blank; a
\* blank field with a default value has no column and is in the
\* default-value marker list; a blank primary key has no column.
C29_ColumnsOfNonBlankFields ==
    (Done("create") /\ err = Nil) =>
       \A i \in 1..Len(ChangeableFields) :
          LET f == ChangeableFields[i]
          IN  /\ Listed(f.name) <=> (~f.isPK /\ ~f.blank)
              /\ (f.blank /\ f.hasDefault) =>
                    (~Listed(f.name) /\ Marked(f.name))
              /\ (f.blank /\ f.isPK) => ~Listed(f.name)

\* C29, amended: a normal changeable field has a column in the INSERT
\* exactly when it is not a blank field with a default value and it is
\* not a blank primary key: a primary key with a value is listed, and so
\* is a blank field without a default value.  A blank field with a default
\* value has no column and no parameter and is in the default-value marker
\* list, which holds nothing else; a blank primary key has no column.
C29_ColumnsOfFields ==
    (Done("create") /\ err = Nil) =>
       /\ \A i \in 1..Len(ChangeableFields) :
             LET f == ChangeableFields[i]
             IN  /\ Listed(f.name) <=>
                       (~(f.blank /\ f.hasDefault) /\ (~f.isPK \/ ~f.blank))
                 /\ Marked(f.name) <=> (f.blank /\ f.hasDefault)
       /\ Len(e.SQLVars) - Len(e0.SQLVars) = Len(InsertColumns(e.SQL))

\* A record with a primary key that has a value and a changeable blank
\* foreign key without a default value: both are listed.
C29_Witness ==
    /\ Done("create") /\ err = Nil
    /\ e0.Value.hasPK /\ e0.Value.id # 0
    /\ e0.Value.fk = 0 /\ e0.Value.fkChangeable /\ ~e0.Value.fkDefault
    /\ InsertColumns(e.SQL) = <<"id", "fk">>
    /\ e.scope.BlankColWithValue = << >>

\* The cursors open after the first n calls: the queries that succeeded
\* and were not closed.
OpenCursors(n) ==
    Cardinality({i \in 1..n : calls[i].call = "Query" /\ calls[i].ok})
    - Cardinality({i \in 1..n : calls[i].call = "Close"})

\* C30: every cursor a query opened is closed exactly once, by the
\* function that opened it and before that function sends another query
\* or returns: at no point are there fewer than zero or more than one
\* open cursor, a Close follows a successful Query of the same function on
\* the same engine with only row scans in between, and when the call is
\* over no cursor is open, whether the row loop ended or returned early.
C30_CursorsClosed ==
    pc = "done" =>
       /\ \A n \in 0..Len(calls) : OpenCursors(n) \in {0, 1}
       /\ OpenCursors(Len(calls)) = 0
       /\ \A j \in 1..Len(calls) :
             calls[j].call = "Close" =>
                \E i \in 1..(j - 1) :
                   /\ calls[i].call = "Query" /\ calls[i].ok
                   /\ calls[i].by = calls[j].by /\ calls[i].lvl = calls[j].lvl
                   /\ \A k \in (i + 1)..(j - 1) : calls[k].call = "Fields"
       /\ \A i \in 1..Len(calls) :
             (calls[i].call = "Query" /\ ~calls[i].ok) =>
                (i = Len(calls) \/ calls[i + 1].call # "Close")

\* A secondary query of QueryExec returned rows, reading the field
\* metadata of the second row failed, and the cursor was closed on the way
\* out with that error.
C30_Witness ==
    /\ pc = "done" /\ err = ErrOf("Fields")
    /\ \E i \in 1..Len(calls) :
          /\ i + 3 = Len(calls)
          /\ calls[i].call = "Query" /\ calls[i].ok
          /\ calls[i].by = "QueryExec"
          /\ calls[i + 1].call = "Fields" /\ calls[i + 1].ok
          /\ calls[i + 2].call = "Fields" /\ ~calls[i + 2].ok
          /\ calls[i + 3].call = "Close"

\* The records held by the has_one, has_many and many_to_many fields of
\* the record AfterAssociation was called on, and those of them held by a
\* field with a join table.
Associated ==
    Flatten([i \in 1..Len(e0.Value.fields) |->
               IF e0.Value.fields[i].save
                  /\ e0.Value.fields[i].Kind
                        \in {"has_one", "has_many", "many_to_many"}
               THEN e0.Value.fields[i].elems ELSE << >>])

Joined ==
    Flatten([i \in 1..Len(e0.Value.fields) |->
               IF e0.Value.fields[i].save /\ e0.Value.fields[i].joinTable
               THEN e0.Value.fields[i].elems ELSE << >>])

\* C31: an AfterAssociation that returns success has saved every element
\* of every has_one, has_many and many_to_many field of the record: the
\* SQL-build step of the create group ran once for each of them on a
\* clone, and one join-table row was added for each element of a
\* many_to_many field.
C31_SavesEveryElement ==
    (Done("AfterAssociation") /\ err = Nil /\ ShouldSaveAssociation(e0)) =>
       /\ Cardinality(Entries("CreateSQL", e0.level + 1)) = Len(Associated)
       /\ Cardinality({i \in 1..Len(calls) :
                         calls[i].call = "AddJoinRelation"}) = Len(Joined)

\* The steps of the QL fix-up: they run for nothing else during a create
\* or a cascade.
FixUpSteps == {"UpdateSQL", "UpdateExec"}

\* C32: on a QL backend, when a step of the fix-up that follows the
\* creation of a record returns an error, the call that ran it (Create,
\* SaveBeforeAssociation, AfterAssociation) returns an error.
C32_FixUpErrorPropagates ==
    (/\ pc = "done"
     /\ op \in {"Create", "SaveBeforeAssociation", "AfterAssociation"}
     /\ IsQL(e0.dialect)
     /\ \E i \in 1..Len(steps) :
           /\ steps[i].ev = "ret" /\ steps[i].fn \in FixUpSteps
           /\ steps[i].err # Nil) =>
        err # Nil

\* C33: during one Create call on the default book, with or without
\* functions of the user, the BeforeCreate step runs exactly once on the
\* caller's engine, and so does every function the user registered for
\* the before-save and the before-create hook of the create group.
C33_BeforeCreateOnce ==
    Done("Create") =>
       /\ Cardinality(Entries("BeforeCreate", e0.level)) = 1
       /\ \A p \in {"HookBeforeSave", "HookBeforeCreate"} :
             Cardinality(Entries("user " \o p, e0.level))
               <= Len(Registered([book |-> book], "Create", p))

====
